---- MODULE Spec2Model ----
(***************************************************************************)
(* nv-detector: the lock tracker with its deadlock search and the pthread  *)
(* mutex interposers (src/src/lock_detect.cpp), and the allocation tracker *)
(* with the allocator interposers (memory_detect, src/unnamed/part_001).   *)
(*                                                                         *)
(* Every tracker operation runs under the tracker's own std::mutex, so one *)
(* tracker operation is one atomic step.  The real primitives (the real    *)
(* pthread_mutex_lock/unlock/trylock, the real malloc/free/realloc) are    *)
(* called outside that guard and are steps of their own, so that every     *)
(* interleaving of "tracker call" and "real call" of different threads is  *)
(* explored.  Captured call stacks are not modelled: no decision of the    *)
(* trackers reads them.                                                    *)
(***************************************************************************)
EXTENDS Integers, Sequences, FiniteSets, TLC

\* ------------------------------------------------------------------ bounds
NumThreads == 2
NumMutexes == 2
\* lock and trylock calls the arbitrary target program makes in all
MaxCalls == 3
\* the same for the longer runs of SpecDeep
MaxCallsDeep == 6
MaxCallsGuard == 2
MaxCallsStart == 2
\* addresses the real allocator hands out
NumAddrs == 3
\* allocation calls (tracker calls in SpecTracker) the target program makes
MaxMemOps == 3
\* ReplaceFunction calls a user of the patcher makes
MaxPltCalls == 3
MaxRela == 3
MaxStarts == 2
MaxFaults == 1
MaxRegister == 3
MaxEnumCalls == MaxRela + 2

Threads == 1..NumThreads
Mutexes == 1..NumMutexes
\* pthread_t value of a default-constructed LockInfo (owner_thread = 0)
NoThread == 0
\* lock_addr of a default-constructed LockInfo (nullptr)
NullAddr == 0

VARIABLES
  \* LockTracker
  active_locks,   \* std::unordered_map<void*, LockInfo>
  thread_info,    \* std::unordered_map<pthread_t, ThreadInfo>
  mutex_,         \* the tracker's guard (std::mutex): the thread inside a tracker operation
  report,         \* lock chain printed by the tracker operation just run (<<>>: none)
  reported,       \* output sink: the sets of mutexes of all chains printed so far
  \* the target process: real mutexes and the threads running the interposers
  mutex_owner,    \* real pthread mutex: the thread that holds it, NoThread if free
  pc,             \* position of each thread inside a mutex interposer
  arg,            \* the mutex argument of the interposer a thread is in
  calls,          \* interposer calls made so far by the target program
  prog,           \* scripted threads: the calls each thread makes, in order
  ip,             \* scripted threads: index in prog of the thread's next call
  result,         \* local result of the interposer a thread is in, which it returns
  \* the patched object and LockHook::Start
  got,            \* GOT slot of each mutex symbol: what a call through the PLT reaches
  g_orig,         \* g_orig_mutex_lock / g_orig_mutex_unlock / g_orig_mutex_trylock
  start_pc,       \* position of the thread running LockHook::Start
  \* PltHook and the object it was created for
  rela_plt,           \* the object's PLT relocation table, in table order
  got_word,           \* the GOT word of each relocation entry
  page_prot,          \* current protection of each page of the GOT
  memory_protections, \* protection of the GOT's mapping as read at construction
  error_message,      \* PltHook::Impl::error_message
  caller,             \* the user of the patcher: its last call, the return code, its out-slot
  before,             \* GOT words and page protections when the last patching call began
  enumeration,        \* a user of EnumerateSymbols: its cursor, its out-parameters, what it was handed
  startup,            \* MemoryHook::Start / LockHook::Start on the object: position, locals, output
  detector,           \* detector.cpp: detector_option, the hooks_ of both detectors, DetectorStart
  search,             \* the last run of DetectDeadlock on the lock map: arguments and outcome
  detect,             \* the thread that calls DetectorDetect: its position in PrintStatus
  \* MemoryTracker
  allocations,        \* std::unordered_map<void*, AllocationInfo>: address -> size
  total_allocated,    \* total_allocated_
  total_freed,        \* total_freed_
  active_allocations, \* active_allocations_
  \* the target process: the real allocator and the threads in the allocator
  \* interposers
  heap,           \* live blocks of the real allocator: address -> requested size
  mpc,            \* position of each thread inside an allocator interposer
  mptr,           \* local ptr / old_ptr of the interposer a thread is in
  mnew,           \* local new_ptr of HookedRealloc
  msize,          \* local size of the interposer a thread is in
  mops,           \* allocation calls made so far by the target program
  entry           \* the tracker entry called last by a direct caller, with its arguments

lockVars == <<active_locks, thread_info, mutex_, report, reported, mutex_owner,
              pc, arg, calls, prog, ip, result>>
pltVars == <<rela_plt, got_word, page_prot, memory_protections, error_message,
             caller, before, enumeration, startup, detector, search, detect>>
hookVars == <<got, g_orig, start_pc, pltVars>>

trackerVars == <<allocations, total_allocated, total_freed, active_allocations>>
memVars == <<trackerVars, heap, mpc, mptr, mnew, msize, mops, entry>>

vars == <<lockVars, memVars, hookVars>>

\* ---------------------------------------------------------------- helpers
Put(f, k, v) == [x \in (DOMAIN f) \cup {k} |-> IF x = k THEN v ELSE f[x]]
Drop(f, k) == [x \in (DOMAIN f) \ {k} |-> f[x]]
EmptyMap == [x \in {} |-> 0]
\* std::erase(vector, value): removes every occurrence
Erase(s, v) == SelectSeq(s, LAMBDA e : e # v)
Range(s) == {s[i] : i \in 1..Len(s)}

\* a default-constructed LockInfo, what operator[] inserts for a missing key
DefaultLockInfo ==
  [lock_addr |-> NullAddr, owner_thread |-> NoThread, waiting_for |-> {},
   acquired |-> FALSE]
\* a default-constructed ThreadInfo
DefaultThreadInfo == [held_locks |-> <<>>, waiting_locks |-> <<>>]

\* unordered_map::operator[] as a read: the stored value or a fresh default
LockAt(al, m) == IF m \in DOMAIN al THEN al[m] ELSE DefaultLockInfo
ThreadAt(ti, t) == IF t \in DOMAIN ti THEN ti[t] ELSE DefaultThreadInfo

\* ------------------------------------------------------- deadlock search
\* DetectDeadlockDFS.  The iteration order of the unordered_set waiting_for is
\* unspecified, so the operator yields the lock chain of every order: the
\* search returns true iff the set is non-empty, and the chain it leaves in
\* lock_chain is one member of the set.
RECURSIVE DetectDeadlockDFS(_, _, _, _, _)
DetectDeadlockDFS(al, current_lock, current_thread, visited_threads, lock_chain) ==
  IF current_thread \in visited_threads
  THEN {Append(lock_chain, <<current_lock, current_thread>>)}
  ELSE UNION {
         DetectDeadlockDFS(al, waited_lock, al[waited_lock].owner_thread,
                           visited_threads \cup {current_thread},
                           Append(lock_chain, <<current_lock, current_thread>>))
         : waited_lock \in {w \in LockAt(al, current_lock).waiting_for :
                              w \in DOMAIN al} }

\* a search that reports whenever it is run, that is on every contended lock
DetectDeadlock_OnContention(al, lock_addr, thread_id) ==
  {<<<<lock_addr, thread_id>>>>}

DetectDeadlock(al, lock_addr, thread_id) ==
  DetectDeadlockDFS(al, lock_addr, thread_id, {}, <<>>)

\* ---------------------------------------- deadlock search, statement by statement
\* the key under which a frame of the search is remembered:
\* visited_threads holds thread ids
VisitKey_Pair(current_lock, current_thread) == <<current_lock, current_thread>>
VisitKey(current_lock, current_thread) == current_thread

\* a frame that returns false without undoing what it added
BackOut_Nothing(visited_threads, lock_chain, key) ==
  [visited_threads |-> visited_threads, lock_chain |-> lock_chain]

\* the end of an unsuccessful frame: visited_threads.erase(current_thread);
\* lock_chain.pop_back()
BackOut(visited_threads, lock_chain, key) ==
  [visited_threads |-> visited_threads \ {key},
   lock_chain |-> SubSeq(lock_chain, 1, Len(lock_chain) - 1)]

\* the elements of an unordered_set in the order this run iterates them
InOrder(set, order) == SelectSeq(order, LAMBDA m : m \in set)

Max(a, b) == IF a >= b THEN a ELSE b

\* DetectDeadlockDFS with its two reference parameters: the result is the
\* return value, visited_threads and lock_chain as the call leaves them, and
\* the number of frames of the deepest nesting the call reached
RECURSIVE DetectDeadlockDFSRun(_, _, _, _, _, _)
RECURSIVE DFSLoop(_, _, _, _, _, _, _)
DetectDeadlockDFSRun(al, order, current_lock, current_thread, visited_threads, lock_chain) ==
  LET key == VisitKey(current_lock, current_thread)
  IN IF key \in visited_threads
     THEN [found |-> TRUE, visited_threads |-> visited_threads,
           lock_chain |-> Append(lock_chain, <<current_lock, current_thread>>),
           depth |-> 1]
     ELSE DFSLoop(al, order, key, visited_threads \cup {key},
                  Append(lock_chain, <<current_lock, current_thread>>),
                  InOrder(LockAt(al, current_lock).waiting_for, order), 0)

\* the for loop of a frame over the rest of waiting_for; deep is the deepest
\* nesting below this frame so far
DFSLoop(al, order, key, visited_threads, lock_chain, rest, deep) ==
  IF rest = <<>>
  THEN LET out == BackOut(visited_threads, lock_chain, key)
       IN [found |-> FALSE, visited_threads |-> out.visited_threads,
           lock_chain |-> out.lock_chain, depth |-> 1 + deep]
  ELSE LET waited_lock == Head(rest)
       IN IF waited_lock \notin DOMAIN al
          THEN DFSLoop(al, order, key, visited_threads, lock_chain, Tail(rest), deep)
          ELSE LET r == DetectDeadlockDFSRun(al, order, waited_lock,
                                             al[waited_lock].owner_thread,
                                             visited_threads, lock_chain)
               IN IF r.found
                  THEN [r EXCEPT !.depth = 1 + Max(deep, r.depth)]
                  ELSE DFSLoop(al, order, key, r.visited_threads, r.lock_chain,
                               Tail(rest), Max(deep, r.depth))

\* DetectDeadlock: the search from empty locals
DetectDeadlockRun(al, order, lock_addr, thread_id) ==
  DetectDeadlockDFSRun(al, order, lock_addr, thread_id, {}, <<>>)

\* no search has been run
NoSearch ==
  [lock_addr |-> NullAddr, thread_id |-> NoThread, order |-> <<>>, returned |-> FALSE,
   found |-> FALSE, visited_threads |-> {}, lock_chain |-> <<>>, depth |-> 0]

\* the mutex addresses of the lock maps the search is run on, and the
\* iteration orders of an unordered_set of them
SearchLocks == {1, 2, 3}
Orders ==
  {o \in [1..Cardinality(SearchLocks) -> SearchLocks] :
     \A i, j \in DOMAIN o : o[i] = o[j] => i = j}

\* RecordLockAcquire runs DetectDeadlock(lock_addr, thread_id) on the lock
\* map for a mutex that has a record
CallDetectDeadlock ==
  /\ ~search.returned
  /\ \E lock_addr \in DOMAIN active_locks, thread_id \in Threads, order \in Orders :
       LET r == DetectDeadlockRun(active_locks, order, lock_addr, thread_id)
       IN search' = [lock_addr |-> lock_addr, thread_id |-> thread_id, order |-> order,
                     returned |-> TRUE, found |-> r.found,
                     visited_threads |-> r.visited_threads,
                     lock_chain |-> r.lock_chain, depth |-> r.depth]
  /\ UNCHANGED <<active_locks, thread_info, mutex_, report, reported, mutex_owner, pc,
                 arg, calls, prog, ip, result>>
  /\ UNCHANGED <<rela_plt, got_word, page_prot, memory_protections, error_message,
                 caller, before, enumeration, startup, detector, detect, got, g_orig,
                 start_pc, memVars>>

\* the thread that calls DetectorDetect has not called it
NoDetect == [pc |-> "idle", deadlocked |-> FALSE]

\* ------------------------------------------------------------ LockTracker
\* the edges added by RecordLockAcquire: every lock in the caller's held
\* list gets lock_addr in its waiting_for set (operator[] creates the record)
RECURSIVE AddEdges(_, _, _)
AddEdges(al, held, lock_addr) ==
  IF held = <<>> THEN al
  ELSE LET h == Head(held)
           info == LockAt(al, h)
       IN AddEdges(Put(al, h, [info EXCEPT !.waiting_for = @ \cup {lock_addr}]),
                   Tail(held), lock_addr)

\* RecordLockAcquire (acquire-intent): the tracker state after the call and
\* the chains the deadlock search can report
RecordLockAcquire(al, ti, thread_id, lock_addr) ==
  IF lock_addr \in DOMAIN al
  THEN IF al[lock_addr].acquired
       THEN LET old == ThreadAt(ti, thread_id)
                waiting == [old EXCEPT !.waiting_locks = Append(@, lock_addr)]
                al2 == AddEdges(al, waiting.held_locks, lock_addr)
            IN [locks |-> al2,
                threads |-> Put(ti, thread_id, waiting),
                chains |-> DetectDeadlock(al2, lock_addr, thread_id)]
       ELSE [locks |-> al, threads |-> ti, chains |-> {}]
  ELSE [locks |-> Put(al, lock_addr,
                      [DefaultLockInfo EXCEPT !.lock_addr = lock_addr]),
        threads |-> ti, chains |-> {}]

\* RecordLockAcquired with the held-list update forgotten
RecordLockAcquired_NoHeldList(al, ti, thread_id, lock_addr) ==
  IF lock_addr \in DOMAIN al
  THEN LET old == ThreadAt(ti, thread_id)
       IN [locks |-> [al EXCEPT ![lock_addr].owner_thread = thread_id,
                                ![lock_addr].acquired = TRUE],
           threads |-> Put(ti, thread_id,
                           [old EXCEPT !.waiting_locks = Erase(@, lock_addr)])]
  ELSE [locks |-> al, threads |-> ti]

\* RecordLockAcquired (acquire-success)
RecordLockAcquired(al, ti, thread_id, lock_addr) ==
  IF lock_addr \in DOMAIN al
  THEN LET old == ThreadAt(ti, thread_id)
       IN [locks |-> [al EXCEPT ![lock_addr].owner_thread = thread_id,
                                ![lock_addr].acquired = TRUE],
           threads |-> Put(ti, thread_id,
                           [held_locks |-> Append(old.held_locks, lock_addr),
                            waiting_locks |-> Erase(old.waiting_locks, lock_addr)])]
  ELSE [locks |-> al, threads |-> ti]

\* RecordLockRelease with the caller's held-list left as it was
RecordLockRelease_KeepsHeld(al, ti, thread_id, lock_addr) ==
  [locks |-> Drop(al, lock_addr), threads |-> ti]

\* RecordLockRelease that never erases the caller's thread record
RecordLockRelease_KeepsThread(al, ti, thread_id, lock_addr) ==
  [locks |-> Drop(al, lock_addr),
   threads |-> IF thread_id \in DOMAIN ti
               THEN [ti EXCEPT ![thread_id].held_locks = Erase(@, lock_addr)]
               ELSE ti]

\* RecordLockRelease
RecordLockRelease(al, ti, thread_id, lock_addr) ==
  LET al2 == Drop(al, lock_addr)
  IN IF thread_id \in DOMAIN ti
     THEN LET held == Erase(ti[thread_id].held_locks, lock_addr)
          IN IF held = <<>> /\ ti[thread_id].waiting_locks = <<>>
             THEN [locks |-> al2, threads |-> Drop(ti, thread_id)]
             ELSE [locks |-> al2,
                   threads |-> [ti EXCEPT ![thread_id].held_locks = held]]
     ELSE [locks |-> al2, threads |-> ti]

\* ------------------------------------------------- the real pthread mutex
\* pthread_mutex_lock returns 0 once the mutex is free; a thread that locks a
\* non-recursive mutex it holds either blocks for ever (default type) or
\* gets EDEADLK (error-checking type)
RealLockReturns0(mo, t, m) == mo[m] = NoThread
RealLockReturnsError(mo, t, m) == mo[m] = t
\* pthread_mutex_trylock returns 0 iff the mutex is free, EBUSY otherwise
RealTrylockReturns0(mo, t, m) == mo[m] = NoThread
\* the values the real primitives return besides 0
EDEADLK == 35
EBUSY == 16

\* ------------------------------------------------- the patched object's GOT
\* the three symbols LockHook::Start replaces, in the order it replaces them
Symbols == <<"pthread_mutex_lock", "pthread_mutex_unlock", "pthread_mutex_trylock">>
\* the function pointers g_orig_mutex_lock, g_orig_mutex_unlock and
\* g_orig_mutex_trylock start as nullptr
Nullptr == "nullptr"
\* the symbol whose interposer starts at position op
SymbolOf(op) ==
  IF op = "lock_intent" THEN "pthread_mutex_lock"
  ELSE IF op = "trylock_real" THEN "pthread_mutex_trylock"
  ELSE "pthread_mutex_unlock"
\* the function pointer an interposer calls at position p
OrigAt(p) ==
  IF p = "lock_real" THEN "pthread_mutex_lock"
  ELSE IF p = "trylock_real" THEN "pthread_mutex_trylock"
  ELSE "pthread_mutex_unlock"

\* ----------------------------------------------------- the tracker's guard
\* every tracker operation opens with std::lock_guard<std::mutex> lock(mutex_),
\* whose destructor releases the guard when the operation returns
GuardFree(t) == mutex_ \in {NoThread, t}
\* a guard that stays locked after the operation has returned
GuardAtReturn_Kept(t) == t
GuardAtReturn(t) == NoThread
\* the lock_guard constructor of a tracker operation, as a step of its own
GuardLock(t) ==
  /\ pc[t] \in {"lock_intent", "lock_success", "unlock_release"}
  /\ mutex_ = NoThread
  /\ mutex_' = t
  /\ UNCHANGED <<active_locks, thread_info, report, reported, mutex_owner, pc, arg,
                 calls, prog, ip, result>>
  /\ UNCHANGED <<memVars, hookVars>>

\* ------------------------------------------------------------ interposers
\* a thread outside the interposers calls one of them
Enter(t, op, m) ==
  /\ pc[t] = "idle"
  /\ got[SymbolOf(op)] = "hooked"
  /\ pc' = [pc EXCEPT ![t] = op]
  /\ arg' = [arg EXCEPT ![t] = m]
  /\ result' = [result EXCEPT ![t] = 0]
  /\ report' = <<>>
  /\ UNCHANGED <<active_locks, thread_info, mutex_, reported, mutex_owner>>
  /\ UNCHANGED <<memVars, hookVars>>

\* an arbitrary target program: any thread locks or trylocks any mutex and
\* unlocks mutexes it holds
CallLock(t, budget) ==
  /\ calls < budget
  /\ \E m \in Mutexes : Enter(t, "lock_intent", m)
  /\ calls' = calls + 1
  /\ UNCHANGED <<prog, ip>>

CallTrylock(t, budget) ==
  /\ calls < budget
  /\ \E m \in Mutexes : Enter(t, "trylock_real", m)
  /\ calls' = calls + 1
  /\ UNCHANGED <<prog, ip>>

CallUnlock(t) ==
  /\ \E m \in Mutexes : mutex_owner[m] = t /\ Enter(t, "unlock_release", m)
  /\ UNCHANGED <<calls, prog, ip>>

\* a scripted call may wait (the sleep_for of the example programs) until some
\* other thread holds the real mutex g; g = NullAddr: no wait
Entered(g, t) == IF g = NullAddr THEN TRUE ELSE mutex_owner[g] \notin {NoThread, t}

\* a scripted target program: the thread makes the next call of its script
CallScript(t) ==
  /\ ip[t] <= Len(prog[t])
  /\ Entered(prog[t][ip[t]][3], t)
  /\ Enter(t, prog[t][ip[t]][1], prog[t][ip[t]][2])
  /\ ip' = [ip EXCEPT ![t] = @ + 1]
  /\ UNCHANGED <<calls, prog>>

\* HookedPthreadMutexLock, first statement: RecordLockAcquire(mutex)
LockIntent(t) ==
  /\ pc[t] = "lock_intent"
  /\ GuardFree(t)
  /\ mutex_' = GuardAtReturn(t)
  /\ LET r == RecordLockAcquire(active_locks, thread_info, t, arg[t])
     IN /\ active_locks' = r.locks
        /\ thread_info' = r.threads
        /\ IF r.chains = {}
           THEN report' = <<>> /\ reported' = reported
           ELSE \E c \in r.chains :
                  /\ report' = c
                  /\ reported' = reported \cup {{c[i][1] : i \in 1..Len(c)}}
  /\ pc' = [pc EXCEPT ![t] = "lock_real"]
  /\ UNCHANGED <<mutex_owner, arg, calls, prog, ip, result>>
  /\ UNCHANGED <<memVars, hookVars>>

\* HookedPthreadMutexLock: g_orig_mutex_lock(mutex) returns 0
LockReal(t) ==
  /\ pc[t] = "lock_real"
  /\ g_orig[OrigAt(pc[t])] # Nullptr
  /\ result' = [result EXCEPT ![t] = 0]
  /\ RealLockReturns0(mutex_owner, t, arg[t])
  /\ mutex_owner' = [mutex_owner EXCEPT ![arg[t]] = t]
  /\ pc' = [pc EXCEPT ![t] = "lock_success"]
  /\ report' = <<>>
  /\ UNCHANGED <<mutex_, active_locks, thread_info, reported, arg, calls, prog, ip>>
  /\ UNCHANGED <<memVars, hookVars>>

\* a lock interposer that records the acquisition although the real lock
\* returned an error
LockRealFails_RecordsSuccess(t) ==
  /\ pc[t] = "lock_real"
  /\ g_orig[OrigAt(pc[t])] # Nullptr
  /\ RealLockReturnsError(mutex_owner, t, arg[t])
  /\ result' = [result EXCEPT ![t] = EDEADLK]
  /\ pc' = [pc EXCEPT ![t] = "lock_success"]
  /\ report' = <<>>
  /\ UNCHANGED <<mutex_, active_locks, thread_info, reported, mutex_owner, arg, calls, prog, ip>>
  /\ UNCHANGED <<memVars, hookVars>>

\* HookedPthreadMutexLock: g_orig_mutex_lock(mutex) returns an error, and the
\* interposer returns it without recording anything
LockRealFails(t) ==
  /\ pc[t] = "lock_real"
  /\ g_orig[OrigAt(pc[t])] # Nullptr
  /\ result' = [result EXCEPT ![t] = EDEADLK]
  /\ RealLockReturnsError(mutex_owner, t, arg[t])
  /\ pc' = [pc EXCEPT ![t] = "idle"]
  /\ report' = <<>>
  /\ UNCHANGED <<mutex_, active_locks, thread_info, reported, mutex_owner, arg, calls, prog, ip>>
  /\ UNCHANGED <<memVars, hookVars>>

\* HookedPthreadMutexLock / HookedPthreadMutexTrylock, result == 0:
\* RecordLockAcquired(mutex), then return
LockSuccess(t) ==
  /\ pc[t] = "lock_success"
  /\ GuardFree(t)
  /\ mutex_' = GuardAtReturn(t)
  /\ LET r == RecordLockAcquired(active_locks, thread_info, t, arg[t])
     IN active_locks' = r.locks /\ thread_info' = r.threads
  /\ pc' = [pc EXCEPT ![t] = "idle"]
  /\ report' = <<>>
  /\ UNCHANGED <<reported, mutex_owner, arg, calls, prog, ip, result>>
  /\ UNCHANGED <<memVars, hookVars>>

\* HookedPthreadMutexTrylock: g_orig_mutex_trylock(mutex) returns 0
TrylockReal(t) ==
  /\ pc[t] = "trylock_real"
  /\ g_orig[OrigAt(pc[t])] # Nullptr
  /\ result' = [result EXCEPT ![t] = 0]
  /\ RealTrylockReturns0(mutex_owner, t, arg[t])
  /\ mutex_owner' = [mutex_owner EXCEPT ![arg[t]] = t]
  /\ pc' = [pc EXCEPT ![t] = "lock_success"]
  /\ report' = <<>>
  /\ UNCHANGED <<mutex_, active_locks, thread_info, reported, arg, calls, prog, ip>>
  /\ UNCHANGED <<memVars, hookVars>>

\* a trylock interposer that records an acquire-intent when the real trylock
\* has failed
TrylockBusy_RecordsIntent(t) ==
  /\ pc[t] = "trylock_real"
  /\ g_orig[OrigAt(pc[t])] # Nullptr
  /\ result' = [result EXCEPT ![t] = EBUSY]
  /\ ~RealTrylockReturns0(mutex_owner, t, arg[t])
  /\ LET r == RecordLockAcquire(active_locks, thread_info, t, arg[t])
     IN active_locks' = r.locks /\ thread_info' = r.threads
  /\ pc' = [pc EXCEPT ![t] = "idle"]
  /\ report' = <<>>
  /\ UNCHANGED <<mutex_, reported, mutex_owner, arg, calls, prog, ip>>
  /\ UNCHANGED <<memVars, hookVars>>

\* HookedPthreadMutexTrylock: g_orig_mutex_trylock(mutex) returns EBUSY
TrylockBusy(t) ==
  /\ pc[t] = "trylock_real"
  /\ g_orig[OrigAt(pc[t])] # Nullptr
  /\ result' = [result EXCEPT ![t] = EBUSY]
  /\ ~RealTrylockReturns0(mutex_owner, t, arg[t])
  /\ pc' = [pc EXCEPT ![t] = "idle"]
  /\ report' = <<>>
  /\ UNCHANGED <<mutex_, active_locks, thread_info, reported, mutex_owner, arg, calls, prog, ip>>
  /\ UNCHANGED <<memVars, hookVars>>

\* an unlock interposer that forwards to the real unlock without having
\* recorded the release
UnlockRelease_ForwardsFirst(t) ==
  /\ pc[t] = "unlock_release"
  /\ mutex_owner' = [mutex_owner EXCEPT ![arg[t]] = NoThread]
  /\ pc' = [pc EXCEPT ![t] = "unlock_real"]
  /\ report' = <<>>
  /\ UNCHANGED <<mutex_, active_locks, thread_info, reported, arg, calls, prog, ip, result>>
  /\ UNCHANGED <<memVars, hookVars>>

\* HookedPthreadMutexUnlock, first statement: RecordLockRelease(mutex)
UnlockRelease(t) ==
  /\ pc[t] = "unlock_release"
  /\ GuardFree(t)
  /\ mutex_' = GuardAtReturn(t)
  /\ LET r == RecordLockRelease(active_locks, thread_info, t, arg[t])
     IN active_locks' = r.locks /\ thread_info' = r.threads
  /\ pc' = [pc EXCEPT ![t] = "unlock_real"]
  /\ report' = <<>>
  /\ UNCHANGED <<reported, mutex_owner, arg, calls, prog, ip, result>>
  /\ UNCHANGED <<memVars, hookVars>>

\* HookedPthreadMutexUnlock: g_orig_mutex_unlock(mutex), then return
UnlockReal(t) ==
  /\ pc[t] = "unlock_real"
  /\ g_orig[OrigAt(pc[t])] # Nullptr
  /\ result' = [result EXCEPT ![t] = 0]
  /\ mutex_owner' = [mutex_owner EXCEPT ![arg[t]] = NoThread]
  /\ pc' = [pc EXCEPT ![t] = "idle"]
  /\ report' = <<>>
  /\ UNCHANGED <<mutex_, active_locks, thread_info, reported, arg, calls, prog, ip>>
  /\ UNCHANGED <<memVars, hookVars>>

\* an interposer calls through a function pointer that is still nullptr: the
\* process is killed by the fault
CallThroughNull(t) ==
  /\ pc[t] \in {"lock_real", "trylock_real", "unlock_real"}
  /\ g_orig[OrigAt(pc[t])] = Nullptr
  /\ pc' = [u \in Threads |-> "crashed"]
  /\ report' = <<>>
  /\ UNCHANGED <<mutex_, active_locks, thread_info, reported, mutex_owner, arg, calls,
                 prog, ip, result>>
  /\ UNCHANGED <<memVars, hookVars>>

\* a call of the target through a GOT slot that still holds the real function
Direct(t) ==
  /\ pc[t] = "idle"
  /\ report' = <<>>
  /\ UNCHANGED <<mutex_, active_locks, thread_info, reported, pc, arg, prog, ip, result>>
  /\ UNCHANGED <<memVars, hookVars>>

DirectLock(t, budget) ==
  /\ calls < budget
  /\ got["pthread_mutex_lock"] = "real"
  /\ \E m \in Mutexes :
       /\ RealLockReturns0(mutex_owner, t, m)
       /\ mutex_owner' = [mutex_owner EXCEPT ![m] = t]
  /\ calls' = calls + 1
  /\ Direct(t)

DirectTrylock(t, budget) ==
  /\ calls < budget
  /\ got["pthread_mutex_trylock"] = "real"
  /\ \E m \in Mutexes :
       /\ RealTrylockReturns0(mutex_owner, t, m)
       /\ mutex_owner' = [mutex_owner EXCEPT ![m] = t]
  /\ calls' = calls + 1
  /\ Direct(t)

DirectUnlock(t) ==
  /\ got["pthread_mutex_unlock"] = "real"
  /\ \E m \in Mutexes :
       /\ mutex_owner[m] = t
       /\ mutex_owner' = [mutex_owner EXCEPT ![m] = NoThread]
  /\ calls' = calls
  /\ Direct(t)

\* ---------------------------------------------------------------- PltHook
\* names are C strings: the characters before the terminating NUL
NUL == "\\0"
CharAt(str, i) == IF i < Len(str) THEN str[i + 1] ELSE NUL
Strlen(str) == Len(str)

\* strncmp(a, b, n) == 0: the first n characters are compared, up to and
\* including the first NUL
RECURSIVE StrncmpFrom(_, _, _, _)
StrncmpFrom(a, b, n, i) ==
  IF i = n THEN TRUE
  ELSE IF CharAt(a, i) # CharAt(b, i) THEN FALSE
  ELSE IF CharAt(a, i) = NUL THEN TRUE
  ELSE StrncmpFrom(a, b, n, i + 1)

StrncmpIs0(a, b, n) == StrncmpFrom(a, b, n, 0)

\* a test that accepts every name that starts with funcname
NameMatches_PrefixOnly(name, funcname) == StrncmpIs0(name, funcname, Strlen(funcname))

\* the test ReplaceFunction makes on the name of a PLT entry
NameMatches(name, funcname) ==
  /\ StrncmpIs0(name, funcname, Strlen(funcname))
  /\ \/ CharAt(name, Strlen(funcname)) = NUL
     \/ CharAt(name, Strlen(funcname)) = "@"

\* addresses: nullptr, the lazy-binding stub of the PLT, the function a
\* symbol resolves to, and the interposers a user installs
Null == <<"null", <<>>>>
Stub == <<"stub", <<>>>>
Real(name) == <<"real", name>>
Interposers == {<<"hook", <<"F">>>>, <<"hook", <<"G">>>>}

\* the allocator symbols MemoryHook::Start patches, in the order it tries them
MemorySymbols ==
  <<"malloc", "free", "calloc", "realloc", "_Znwm", "_ZdlPv", "_Znam", "_ZdaPv">>

\* a symbol as a name of the patcher: a string of one token
NameOf(symbol) == <<symbol>>

\* the symbols the loaded objects define, and dlsym(RTLD_DEFAULT, funcname)
Defined ==
  {<<"m">>, <<"m", "x">>} \cup {NameOf(s) : s \in Range(MemorySymbols) \cup Range(Symbols)}
Dlsym(funcname) == IF funcname \in Defined THEN Real(funcname) ELSE Null

\* the names ReplaceFunction is called with
Funcnames == {<<"m">>, <<"m", "x">>, <<"x">>}

\* relocation tables of the objects a PltHook is created for
JumpSlot(name) == [r_type |-> "R_X86_64_JUMP_SLOT", name |-> name]
GlobDat(name) == [r_type |-> "R_X86_64_GLOB_DAT", name |-> name]
PlainTable == <<JumpSlot(<<"m">>), JumpSlot(<<"m", "x">>), JumpSlot(<<"x">>)>>
Tables ==
  { PlainTable,
    <<JumpSlot(<<"m", "x">>), JumpSlot(<<"m", "@", "v">>), JumpSlot(<<"m">>)>>,
    <<GlobDat(<<"m">>), JumpSlot(<<"m">>), JumpSlot(<<"m", "x", "@", "v">>)>>,
    <<JumpSlot(<<"m", "x", "@", "v">>), JumpSlot(<<"x">>), GlobDat(<<"m">>)>> }

\* the symbol an entry's name refers to: the name without its version suffix
RECURSIVE BaseFrom(_, _)
BaseFrom(name, i) ==
  IF i > Len(name) THEN name
  ELSE IF name[i] = "@" THEN SubSeq(name, 1, i - 1)
  ELSE BaseFrom(name, i + 1)

BaseName(name) == BaseFrom(name, 1)

\* the function a call through a GOT word runs: the stub resolves the entry's
\* symbol on the first call
Dispatch(word, rel) == IF word = Stub THEN Dlsym(BaseName(rel.name)) ELSE word

\* the page a GOT word lies on: two words to a page
PageOf(slot) == (slot + 1) \div 2
Pages(table) == {PageOf(i) : i \in 1..Len(table)}

\* protections are sets of PROT_ flags; 0 is the empty set
PROT_WRITE == "PROT_WRITE"
PROT_READ == "PROT_READ"

\* PltHook::Impl::GetMemoryProtection: the protection read at construction
\* for the mapping the address lies in, 0 if no mapping was read for it
GetMemoryProtection(mp, slot) == mp

\* a loop that goes on to the last matching entry
RECURSIVE FirstMatch_Last(_, _, _)
FirstMatch_Last(table, funcname, pos) ==
  IF pos > Len(table) THEN 0
  ELSE LET later == FirstMatch_Last(table, funcname, pos + 1)
       IN IF later # 0 THEN later
          ELSE IF /\ table[pos].r_type = "R_X86_64_JUMP_SLOT"
                  /\ NameMatches(table[pos].name, funcname)
               THEN pos
               ELSE 0

\* PltHook::EnumerateSymbols, as used by the loop of ReplaceFunction: the
\* first JUMP_SLOT entry at or after pos whose name matches, 0 if none
RECURSIVE FirstMatch(_, _, _)
FirstMatch(table, funcname, pos) ==
  IF pos > Len(table) THEN 0
  ELSE IF /\ table[pos].r_type = "R_X86_64_JUMP_SLOT"
          /\ NameMatches(table[pos].name, funcname)
       THEN pos
       ELSE FirstMatch(table, funcname, pos + 1)

\* a SetError that leaves the message empty
SetError_Silent(text, funcname, page) == [text |-> "", funcname |-> <<>>, page |-> 0]

\* PltHook::Impl::SetError
SetError(text, funcname, page) == [text |-> text, funcname |-> funcname, page |-> page]
NoError == SetError("", <<>>, 0)

PltState ==
  [got_word |-> got_word, page_prot |-> page_prot,
   error_message |-> error_message, oldfunc |-> caller.oldfunc]

\* a ReplaceFunction that hands back what the GOT word held: *oldfunc = *addr
ReplaceFunction_HandsBackSlot(st, table, mp, funcname, newfunc, has_old, widen, restore) ==
  LET pos == FirstMatch(table, funcname, 1)
  IN IF Dlsym(funcname) = Null \/ pos = 0
     THEN [state |-> [st EXCEPT !.error_message = SetError("No such function", funcname, 0)],
           ret |-> "kFunctionNotFound"]
     ELSE [state |-> [st EXCEPT !.oldfunc = IF has_old THEN st.got_word[pos] ELSE @,
                                !.got_word[pos] = newfunc],
           ret |-> "kSuccess"]

\* PltHook::ReplaceFunction(funcname, newfunc, oldfunc) on the state st;
\* has_old: oldfunc != nullptr; widen, restore: whether the first and the
\* second mprotect succeed
ReplaceFunction(st, table, mp, funcname, newfunc, has_old, widen, restore) ==
  LET original == Dlsym(funcname)
      pos == FirstMatch(table, funcname, 1)
      prot == GetMemoryProtection(mp, pos)
      page == PageOf(pos)
      NotFound == [st EXCEPT !.error_message = SetError("No such function", funcname, 0)]
  IN IF original = Null
     THEN [state |-> NotFound, ret |-> "kFunctionNotFound"]
     ELSE IF pos = 0
     THEN [state |-> NotFound, ret |-> "kFunctionNotFound"]
     ELSE IF prot = {}
     THEN [state |-> [st EXCEPT !.error_message =
                        SetError("Could not get memory protection", <<>>, page)],
           ret |-> "kInternalError"]
     ELSE IF PROT_WRITE \notin prot /\ ~widen
     THEN [state |-> [st EXCEPT !.error_message =
                        SetError("Could not change memory protection", <<>>, page)],
           ret |-> "kInternalError"]
     ELSE LET widened == IF PROT_WRITE \notin prot
                         THEN [st EXCEPT !.page_prot[page] = prot \cup {PROT_WRITE}]
                         ELSE st
              stored == IF has_old THEN [widened EXCEPT !.oldfunc = original]
                        ELSE widened
              written == [stored EXCEPT !.got_word[pos] = newfunc]
          IN IF PROT_WRITE \notin prot /\ ~restore
             THEN [state |-> [written EXCEPT !.error_message =
                                SetError("Could not restore memory protection", <<>>, page)],
                   ret |-> "kInternalError"]
             ELSE IF PROT_WRITE \notin prot
             THEN [state |-> [written EXCEPT !.page_prot[page] = prot],
                   ret |-> "kSuccess"]
             ELSE [state |-> written, ret |-> "kSuccess"]

\* the user's view of the patcher after a call
\* ------------------------------------------------ PltHook::EnumerateSymbols
\* PltHook::Impl::plt_addr_base: the load address the r_offset of an entry is
\* relative to
plt_addr_base == 4096

\* an entry of a relocation table with its r_offset
Rela(r_type, name, r_offset) == [r_type |-> r_type, name |-> name, r_offset |-> r_offset]

\* a non-null const char*
Str(name) == <<"str", name>>

\* a loop that hands out every entry, whatever its type
EnumerateSymbols_AnyType(table, pos) ==
  IF pos < Len(table)
  THEN [pos |-> pos + 1, name_out |-> Str(table[pos + 1].name),
        addr_out |-> plt_addr_base + table[pos + 1].r_offset, ret |-> "kSuccess"]
  ELSE [pos |-> pos, name_out |-> Null, addr_out |-> 0, ret |-> "kEofReached"]

\* PltHook::EnumerateSymbols(pos, name_out, addr_out): pos counts from 0, the
\* result is the value of the three reference parameters and the return code;
\* called only while the out-parameters are the caller's, so the values they
\* had before the call do not matter
RECURSIVE EnumerateSymbols(_, _)
EnumerateSymbols(table, pos) ==
  IF pos < Len(table)
  THEN LET plt == table[pos + 1]
       IN IF plt.r_type = "R_X86_64_JUMP_SLOT"
          THEN [pos |-> pos + 1, name_out |-> Str(plt.name),
                addr_out |-> plt_addr_base + plt.r_offset, ret |-> "kSuccess"]
          ELSE EnumerateSymbols(table, pos + 1)
  ELSE [pos |-> pos, name_out |-> Null, addr_out |-> 0, ret |-> "kEofReached"]

\* a user about to enumerate: unsigned int pos = 0, nothing handed out yet
EnumStart ==
  [pos |-> 0, name_out |-> Null, addr_out |-> 0, ret |-> "none", calls |-> 0,
   yielded |-> <<>>]

\* the user calls EnumerateSymbols(pos, name, addr) once more and keeps what
\* a successful call handed out
CallEnumerate ==
  /\ enumeration.calls < MaxEnumCalls
  /\ LET r == EnumerateSymbols(rela_plt, enumeration.pos)
     IN enumeration' =
          [pos |-> r.pos, name_out |-> r.name_out, addr_out |-> r.addr_out,
           ret |-> r.ret, calls |-> enumeration.calls + 1,
           yielded |-> IF r.ret = "kSuccess"
                       THEN Append(enumeration.yielded,
                                   [name |-> r.name_out, addr |-> r.addr_out])
                       ELSE enumeration.yielded]
  /\ UNCHANGED <<rela_plt, got_word, page_prot, memory_protections, error_message,
                 caller, before, startup, got, g_orig, start_pc, detector, search, detect, lockVars, memVars>>

\* ----------------------------------- MemoryHook::Start and LockHook::Start
\* the symbols a hook's Start patches, in order
SymbolsOf(kind) == IF kind = "MemoryHook" THEN MemorySymbols ELSE Symbols

\* the interposer Start installs for a symbol: &HookedMalloc, ...
HookedFunction(symbol) == <<"hook", <<symbol>>>>

\* the name Start puts in its lists for a symbol
DisplayName(symbol) ==
  IF symbol = "_Znwm" THEN "operator new"
  ELSE IF symbol = "_ZdlPv" THEN "operator delete"
  ELSE IF symbol = "_Znam" THEN "operator new[]"
  ELSE IF symbol = "_ZdaPv" THEN "operator delete[]"
  ELSE symbol

\* the symbols whose failure Start logs with TRACKER_ERROR
Mandatory == {"malloc", "free", "pthread_mutex_lock", "pthread_mutex_unlock"}

\* no Start has run: pc is <<kind, i>>, at symbol i of that hook's list, i = 0
\* when no Start is running
NotStarted ==
  [pc |-> <<"none", 0>>, starts |-> 0, started |-> <<>>, faults |-> 0,
   attempted |-> <<>>, rets |-> <<>>,
   hooked_functions |-> <<>>, skipped_functions |-> <<>>, log |-> <<>>]

\* a Start that gives up at the first symbol it fails to patch
NextAttempt_StopOnFailure(kind, i, ret) ==
  IF ret # "kSuccess" THEN Len(SymbolsOf(kind)) + 1 ELSE i + 1

\* where Start goes on after the attempt at symbol i returned ret: the
\* statement after the if/else, whatever ret is
NextAttempt(kind, i, ret) == i + 1

\* the lines and lists of Start after ReplaceFunction returned ret for symbol
StartStep(su, kind, symbol, ret, msg) ==
  LET i == su.pc[2]
      ok == ret = "kSuccess"
      line == IF ok THEN <<>>
              ELSE IF symbol \in {"malloc", "free"}
              THEN << <<"ERROR", "Failed to hook", symbol, msg.text>> >>
              ELSE IF symbol \in {"pthread_mutex_lock", "pthread_mutex_unlock"}
              THEN << <<"ERROR", "Failed to hook", symbol, "">> >>
              ELSE IF symbol = "pthread_mutex_trylock"
              THEN << <<"WARNING", "Note: not found in PLT", symbol, "">> >>
              ELSE <<>>
  IN [su EXCEPT
        !.pc = <<kind, NextAttempt(kind, i, ret)>>,
        !.attempted = Append(@, symbol),
        !.rets = Append(@, ret),
        !.hooked_functions =
           IF kind = "MemoryHook" /\ ok THEN Append(@, DisplayName(symbol)) ELSE @,
        !.skipped_functions =
           IF kind = "MemoryHook" /\ ~ok /\ symbol \notin Mandatory
           THEN Append(@, DisplayName(symbol)) ELSE @,
        !.log = @ \o line]

\* hook->Start() begins: PltHook::Create for the (loaded) object, then the
\* locals of the try block
CallStart ==
  /\ startup.pc[2] = 0
  /\ startup.starts < MaxStarts
  /\ \E kind \in {"MemoryHook", "LockHook"} :
       startup' = [startup EXCEPT !.pc = <<kind, 1>>, !.starts = @ + 1,
                                  !.started = Append(@, kind),
                                  !.attempted = <<>>, !.rets = <<>>,
                                  !.hooked_functions = <<>>, !.skipped_functions = <<>>,
                                  !.log = <<>>]
  /\ UNCHANGED <<rela_plt, got_word, page_prot, memory_protections, error_message,
                 caller, before, enumeration, got, g_orig, start_pc, detector, search, detect, lockVars, memVars>>

\* one statement of Start: ReplaceFunction for the next symbol, then the
\* branch on its return code; the mprotect calls fail at most MaxFaults times
StartAttempt ==
  /\ startup.pc[2] \in 1..Len(SymbolsOf(startup.pc[1]))
  /\ LET kind == startup.pc[1]
         symbol == SymbolsOf(kind)[startup.pc[2]]
     IN \E widen \in BOOLEAN, restore \in BOOLEAN :
          LET r == ReplaceFunction([PltState EXCEPT !.oldfunc = Null], rela_plt,
                                   memory_protections, NameOf(symbol),
                                   HookedFunction(symbol), kind = "LockHook",
                                   widen, restore)
              fault == r.state.error_message.text
                         \in {"Could not change memory protection",
                              "Could not restore memory protection"}
                       /\ r.ret # "kSuccess"
          IN /\ fault => startup.faults < MaxFaults
             /\ got_word' = r.state.got_word
             /\ page_prot' = r.state.page_prot
             /\ error_message' = r.state.error_message
             /\ g_orig' = IF kind = "LockHook" /\ r.ret = "kSuccess"
                          THEN [g_orig EXCEPT ![symbol] = r.state.oldfunc]
                          ELSE g_orig
             /\ startup' = [StartStep(startup, kind, symbol, r.ret, r.state.error_message)
                              EXCEPT !.faults = IF fault THEN @ + 1 ELSE @]
  /\ UNCHANGED <<rela_plt, memory_protections, caller, before, enumeration, got,
                 start_pc, detector, search, detect, lockVars, memVars>>

\* the end of Start: the lists are printed and Start returns
StartReturn ==
  /\ startup.pc[2] > Len(SymbolsOf(startup.pc[1]))
  /\ startup' = [startup EXCEPT !.pc = <<startup.pc[1], 0>>]
  /\ UNCHANGED <<rela_plt, got_word, page_prot, memory_protections, error_message,
                 caller, before, enumeration, got, g_orig, start_pc, detector, search, detect, lockVars, memVars>>

\* ------------------------------------------------------------ detector.cpp
kDetectorOptionMemory == 1
kDetectorOptionLock == 2
kDetectorOptionMemoryLock == 3

\* detector_option & flag, for the three option values
HasOption(option, flag) == option \in {flag, kDetectorOptionMemoryLock}

\* the objects a program may register: the main program (""), and shared
\* objects of which NotLoaded is not in the process when Start runs
Libs == {"libA.so", "libB.so"}
NotLoaded == {"libB.so"}

\* the detector library after loading: detector_option is
\* kDetectorOptionMemoryLock, both hooks_ vectors are empty; patched is the
\* set of hooks (detector, index into hooks_) whose Start has run its
\* ReplaceFunction calls
DetectorLoaded ==
  [pc |-> <<"init">>, detector_option |-> kDetectorOptionMemoryLock,
   hooks_ |-> [d \in {"MemoryDetect", "LockDetect"} |-> <<>>],
   patched |-> {}, registered |-> 0]

\* DetectorInit(work_dir, detect_option, output_option)
DetectorInit ==
  /\ detector.pc = <<"init">>
  /\ \E option \in {kDetectorOptionMemory, kDetectorOptionLock, kDetectorOptionMemoryLock} :
       detector' = [detector EXCEPT !.pc = <<"register">>, !.detector_option = option]
  /\ UNCHANGED <<rela_plt, got_word, page_prot, memory_protections, error_message,
                 caller, before, enumeration, startup, search, detect, got, g_orig,
                 start_pc, lockVars, memVars>>

\* the hooks_ vectors after MemoryDetect / LockDetect ::Register(lib_name)
\* for the enabled detectors
Registered(dt, lib_name) ==
  [d \in DOMAIN dt.hooks_ |->
     IF \/ d = "MemoryDetect" /\ HasOption(dt.detector_option, kDetectorOptionMemory)
        \/ d = "LockDetect" /\ HasOption(dt.detector_option, kDetectorOptionLock)
     THEN Append(dt.hooks_[d], lib_name)
     ELSE dt.hooks_[d]]

\* DetectorRegister(lib_name) with a non-null name
DetectorRegister ==
  /\ detector.pc = <<"register">>
  /\ detector.registered < MaxRegister
  /\ \E lib_name \in Libs :
       detector' = [detector EXCEPT !.hooks_ = Registered(detector, lib_name),
                                    !.registered = @ + 1]
  /\ UNCHANGED <<rela_plt, got_word, page_prot, memory_protections, error_message,
                 caller, before, enumeration, startup, search, detect, got, g_orig,
                 start_pc, lockVars, memVars>>

\* DetectorRegisterMain()
DetectorRegisterMain ==
  /\ detector.pc = <<"register">>
  /\ detector.registered < MaxRegister
  /\ detector' = [detector EXCEPT !.hooks_ = Registered(detector, ""),
                                  !.registered = @ + 1]
  /\ UNCHANGED <<rela_plt, got_word, page_prot, memory_protections, error_message,
                 caller, before, enumeration, startup, search, detect, got, g_orig,
                 start_pc, lockVars, memVars>>

\* where DetectorStart is after the loop of detector d has gone through i
\* hooks: at the next hook if there is one, else at the other detector's
\* loop if that one is enabled and not done, else returned
RECURSIVE AfterHook(_, _, _)
AfterHook(dt, d, i) ==
  IF i < Len(dt.hooks_[d]) THEN <<"start", d, i + 1>>
  ELSE IF d = "MemoryDetect" /\ HasOption(dt.detector_option, kDetectorOptionLock)
       THEN AfterHook(dt, "LockDetect", 0)
       ELSE <<"returned">>

\* DetectorStart() is called: the first enabled detector's Start begins
DetectorStart ==
  /\ detector.pc = <<"register">>
  /\ detector' =
       [detector EXCEPT !.pc =
          IF HasOption(detector.detector_option, kDetectorOptionMemory)
          THEN AfterHook(detector, "MemoryDetect", 0)
          ELSE AfterHook(detector, "LockDetect", 0)]
  /\ UNCHANGED <<rela_plt, got_word, page_prot, memory_protections, error_message,
                 caller, before, enumeration, startup, search, detect, got, g_orig,
                 start_pc, lockVars, memVars>>

\* hook->Start() for a loaded object: PltHook::Create succeeds and the try
\* block makes its ReplaceFunction calls; the loop goes on
HookStart ==
  /\ detector.pc[1] = "start"
  /\ LET d == detector.pc[2]
         i == detector.pc[3]
     IN /\ detector.hooks_[d][i] \notin NotLoaded
        /\ detector' = [detector EXCEPT !.pc = AfterHook(detector, d, i),
                                        !.patched = @ \cup {<<d, i>>}]
  /\ UNCHANGED <<rela_plt, got_word, page_prot, memory_protections, error_message,
                 caller, before, enumeration, startup, search, detect, got, g_orig,
                 start_pc, lockVars, memVars>>

\* hook->Start() for an object that is not loaded: dlopen(RTLD_NOLOAD)
\* returns null and PltHook::Create throws std::runtime_error before the try
\* block of Start; nothing between there and the caller of DetectorStart
\* catches it
HookStartThrows ==
  /\ detector.pc[1] = "start"
  /\ detector.hooks_[detector.pc[2]][detector.pc[3]] \in NotLoaded
  /\ detector' = [detector EXCEPT !.pc = <<"thrown">>]
  /\ UNCHANGED <<rela_plt, got_word, page_prot, memory_protections, error_message,
                 caller, before, enumeration, startup, search, detect, got, g_orig,
                 start_pc, lockVars, memVars>>

Caller(funcname, newfunc, oldfunc, ret, n, stage) ==
  [funcname |-> funcname, newfunc |-> newfunc, oldfunc |-> oldfunc, ret |-> ret,
   calls |-> n, stage |-> stage]

\* the shared part of a call of ReplaceFunction: r is what the call returns
ReplaceCall(r) ==
  /\ caller.calls < MaxPltCalls
  /\ got_word' = r.state.got_word
  /\ page_prot' = r.state.page_prot
  /\ error_message' = r.state.error_message
  /\ UNCHANGED <<rela_plt, memory_protections, enumeration, startup, got, g_orig,
                 start_pc, detector, search, detect, lockVars, memVars>>

\* a user patches a symbol: ReplaceFunction(funcname, newfunc, &old) or
\* ReplaceFunction(funcname, newfunc)
CallReplace ==
  \E funcname \in Funcnames, newfunc \in Interposers,
     has_old \in BOOLEAN, widen \in BOOLEAN, restore \in BOOLEAN :
    LET r == ReplaceFunction(PltState, rela_plt, memory_protections,
                             funcname, newfunc, has_old, widen, restore)
    IN /\ ReplaceCall(r)
       /\ caller' = Caller(funcname, newfunc, r.state.oldfunc, r.ret, caller.calls + 1,
                           IF has_old /\ r.ret = "kSuccess" THEN "patched" ELSE "none")
       /\ before' = [got_word |-> got_word, page_prot |-> page_prot]

\* a user that has patched a symbol and kept the address it got back puts
\* that address back: ReplaceFunction(funcname, old)
CallRestore ==
  /\ caller.stage = "patched"
  /\ \E widen \in BOOLEAN, restore \in BOOLEAN :
       LET r == ReplaceFunction(PltState, rela_plt, memory_protections,
                                caller.funcname, caller.oldfunc, FALSE, widen, restore)
       IN /\ ReplaceCall(r)
          /\ caller' = Caller(caller.funcname, caller.oldfunc, r.state.oldfunc, r.ret,
                              caller.calls + 1, "restored")
          /\ before' = before

\* the object as PltHook::Create finds it: the entries in resolved have been
\* called (or the object was bound at load time), the GOT's mapping has the
\* protection prot, which the constructor has read (known) or not
PltInit(table, resolved, prot, known) ==
  /\ rela_plt = table
  /\ got_word = [i \in 1..Len(table) |->
                   IF /\ (i \in resolved \/ table[i].r_type = "R_X86_64_GLOB_DAT")
                      /\ Dlsym(BaseName(table[i].name)) # Null
                   THEN Dlsym(BaseName(table[i].name))
                   ELSE Stub]
  /\ page_prot = [p \in Pages(table) |-> prot]
  /\ memory_protections = IF known THEN prot ELSE {}
  /\ error_message = NoError
  /\ caller = Caller(<<>>, Null, Null, "none", 0, "none")
  /\ before = [got_word |-> got_word, page_prot |-> page_prot]
  /\ enumeration = EnumStart
  /\ startup = NotStarted
  /\ detector = DetectorLoaded
  /\ search = NoSearch
  /\ detect = NoDetect

\* ------------------------------------------------------- LockHook::Start
\* Start replaces the symbols one after the other and then returns
NextSymbol(i) ==
  IF i < Len(Symbols) THEN <<i + 1, "replace">> ELSE <<Len(Symbols), "returned">>

Running == \A t \in Threads : pc[t] # "crashed"

\* PltHook::ReplaceFunction finds the symbol's GOT slot: it stores the
\* original address in the caller's local and writes the interposer into the
\* slot
StartReplace(i) ==
  /\ Running
  /\ start_pc = <<i, "replace">>
  /\ got[Symbols[i]] # "absent"
  /\ got' = [got EXCEPT ![Symbols[i]] = "hooked"]
  /\ start_pc' = <<i, "assign">>
  /\ UNCHANGED <<g_orig, lockVars, memVars, pltVars>>

\* PltHook::ReplaceFunction finds no GOT slot of that name: Start logs the
\* failure and goes on to the next symbol
StartNotFound(i) ==
  /\ Running
  /\ start_pc = <<i, "replace">>
  /\ got[Symbols[i]] = "absent"
  /\ start_pc' = NextSymbol(i)
  /\ UNCHANGED <<got, g_orig, lockVars, memVars, pltVars>>

\* Start, after ReplaceFunction returned kSuccess: g_orig_mutex_... = orig_...
StartAssign(i) ==
  /\ Running
  /\ start_pc = <<i, "assign">>
  /\ g_orig' = [g_orig EXCEPT ![Symbols[i]] = "real"]
  /\ start_pc' = NextSymbol(i)
  /\ UNCHANGED <<got, lockVars, memVars, pltVars>>

\* the steps inside the mutex interposers
LockStep(t) ==
  \/ LockIntent(t)
  \/ LockReal(t)
  \/ LockRealFails(t)
  \/ LockSuccess(t)
  \/ TrylockReal(t)
  \/ TrylockBusy(t)
  \/ UnlockRelease(t)
  \/ UnlockReal(t)

\* ---------------------------------------------------------- MemoryTracker
NullPtr == 0
Addrs == 1..NumAddrs
\* request sizes of the example programs (TestPartialFreeLeak), and 0
Sizes == {0, 64, 128, 256}
\* nmemb arguments of calloc
Counts == {1, 2}
\* request sizes of the multi-threaded programs
MTSizes == {64, 128}

Tracker ==
  [allocations |-> allocations, total_allocated |-> total_allocated,
   total_freed |-> total_freed, active_allocations |-> active_allocations]

SetTracker(st) ==
  /\ allocations' = st.allocations
  /\ total_allocated' = st.total_allocated
  /\ total_freed' = st.total_freed
  /\ active_allocations' = st.active_allocations

\* the counters are size_t: their arithmetic is modulo 2^64.  The sums of the
\* model stay far below that, so the modulus is scaled down to 2^16, still
\* above every sum the model can build: a subtraction that goes below zero
\* wraps to a value near the modulus
SizeModulus == 65536
Wrap(n) == n % SizeModulus

\* RecordAllocation that inserts the record and leaves total_allocated_ alone
RecordAllocation_NoTotal(st, ptr, size) ==
  IF ptr = NullPtr THEN st
  ELSE [allocations |-> Put(st.allocations, ptr, size),
        total_allocated |-> st.total_allocated,
        total_freed |-> st.total_freed,
        active_allocations |-> Wrap(st.active_allocations + 1)]

\* MemoryTracker::RecordAllocation
RecordAllocation(st, ptr, size) ==
  IF ptr = NullPtr THEN st
  ELSE [allocations |-> Put(st.allocations, ptr, size),
        total_allocated |-> Wrap(st.total_allocated + size),
        total_freed |-> st.total_freed,
        active_allocations |-> Wrap(st.active_allocations + 1)]

\* RecordDeallocation with the erase forgotten
RecordDeallocation_KeepsRecord(st, ptr) ==
  IF ptr = NullPtr THEN st
  ELSE IF ptr \in DOMAIN st.allocations
       THEN [st EXCEPT !.total_freed = Wrap(@ + st.allocations[ptr]),
                       !.active_allocations = Wrap(@ - 1)]
       ELSE st

\* RecordDeallocation that counts a release of the null pointer
RecordDeallocation_CountsNull(st, ptr) ==
  IF ptr \in DOMAIN st.allocations
  THEN [allocations |-> Drop(st.allocations, ptr),
        total_allocated |-> st.total_allocated,
        total_freed |-> Wrap(st.total_freed + st.allocations[ptr]),
        active_allocations |-> Wrap(st.active_allocations - 1)]
  ELSE [st EXCEPT !.active_allocations = Wrap(@ - 1)]

\* MemoryTracker::RecordDeallocation
RecordDeallocation(st, ptr) ==
  IF ptr = NullPtr THEN st
  ELSE IF ptr \in DOMAIN st.allocations
       THEN [allocations |-> Drop(st.allocations, ptr),
             total_allocated |-> st.total_allocated,
             total_freed |-> Wrap(st.total_freed + st.allocations[ptr]),
             active_allocations |-> Wrap(st.active_allocations - 1)]
       ELSE st

\* UpdateAllocationSize that adds the new size without taking the old one off
UpdateAllocationSize_AddsOnly(st, ptr, new_size) ==
  IF ptr = NullPtr THEN st
  ELSE IF ptr \in DOMAIN st.allocations
       THEN [st EXCEPT
               !.total_allocated = Wrap(@ + new_size),
               !.allocations = [@ EXCEPT ![ptr] = new_size]]
       ELSE st

\* UpdateAllocationSize that inserts a record for a pointer it does not know
UpdateAllocationSize_InsertsAbsent(st, ptr, new_size) ==
  IF ptr = NullPtr THEN st
  ELSE IF ptr \in DOMAIN st.allocations
       THEN [st EXCEPT
               !.total_allocated = Wrap(Wrap(@ - st.allocations[ptr]) + new_size),
               !.allocations = [@ EXCEPT ![ptr] = new_size]]
       ELSE [st EXCEPT !.allocations = Put(@, ptr, new_size)]

\* MemoryTracker::UpdateAllocationSize
UpdateAllocationSize(st, ptr, new_size) ==
  IF ptr = NullPtr THEN st
  ELSE IF ptr \in DOMAIN st.allocations
       THEN [st EXCEPT
               !.total_allocated = Wrap(Wrap(@ - st.allocations[ptr]) + new_size),
               !.allocations = [@ EXCEPT ![ptr] = new_size]]
       ELSE st

\* ------------------------------------------------------ the real allocator
\* malloc / calloc: a block at an address that holds no live block, or NULL
RealMalloc(h) == (Addrs \ DOMAIN h) \cup {NullPtr}

\* realloc(old, n): the results <<returned pointer, heap afterwards>>.
\* old = NULL allocates; n = 0 releases old and returns NULL (glibc); otherwise
\* the block is resized in place, or moved to a free address (old released),
\* or the call fails and old stays valid
RealRealloc(h, old, n) ==
  IF old = NullPtr
  THEN {<<p, IF p = NullPtr THEN h ELSE Put(h, p, n)>> : p \in RealMalloc(h)}
  ELSE IF n = 0
       THEN {<<NullPtr, Drop(h, old)>>}
       ELSE {<<old, [h EXCEPT ![old] = n]>>, <<NullPtr, h>>}
            \cup {<<p, Put(Drop(h, old), p, n)>> : p \in Addrs \ DOMAIN h}

\* ---------------------------------------------------- allocator interposers
\* the block a thread inside an interposer is working on: allocated but not
\* yet returned to the caller, or passed to free and not yet released
InFlight(t) ==
  IF mpc[t] \in {"alloc_record", "free_real"} THEN {mptr[t]}
  ELSE IF mpc[t] \in {"realloc_record", "realloc_alloc"} THEN {mnew[t]}
  ELSE {}

\* the live blocks the target program holds a pointer to
ProgramBlocks == DOMAIN heap \ UNION {InFlight(t) : t \in Threads}

MemGoto(t, label, p, q, n) ==
  /\ mpc' = [mpc EXCEPT ![t] = label]
  /\ mptr' = [mptr EXCEPT ![t] = p]
  /\ mnew' = [mnew EXCEPT ![t] = q]
  /\ msize' = [msize EXCEPT ![t] = n]

MemReturn(t) == MemGoto(t, "idle", NullPtr, NullPtr, 0)

\* start of an allocating interposer: the call to the real allocator
AllocReal(t, size) ==
  /\ mpc[t] = "idle"
  /\ mops < MaxMemOps
  /\ mops' = mops + 1
  /\ \E p \in RealMalloc(heap) :
       /\ heap' = IF p = NullPtr THEN heap ELSE Put(heap, p, size)
       /\ MemGoto(t, "alloc_record", p, NullPtr, size)
  /\ UNCHANGED <<trackerVars, lockVars, hookVars, entry>>

\* HookedMalloc: ptr = malloc(size)
HookedMalloc(t) == \E size \in Sizes : AllocReal(t, size)

\* HookedCalloc: ptr = calloc(nmemb, size), recorded with nmemb * size
HookedCalloc(t) == \E nmemb \in Counts, size \in Sizes : AllocReal(t, nmemb * size)

\* HookedOperatorNew / HookedOperatorNewArray: ptr = malloc(size)
HookedOperatorNew(t) == \E size \in Sizes : AllocReal(t, size)

\* HookedMalloc / HookedCalloc / HookedOperatorNew: RecordAllocation, return
AllocRecord(t) ==
  /\ mpc[t] = "alloc_record"
  /\ SetTracker(RecordAllocation(Tracker, mptr[t], msize[t]))
  /\ MemReturn(t)
  /\ UNCHANGED <<heap, mops, lockVars, hookVars, entry>>

\* start of a releasing interposer: RecordDeallocation(ptr)
FreeRecord(t, ptr) ==
  /\ mpc[t] = "idle"
  /\ SetTracker(RecordDeallocation(Tracker, ptr))
  /\ MemGoto(t, "free_real", ptr, NullPtr, 0)
  /\ UNCHANGED <<heap, mops, lockVars, hookVars, entry>>

\* HookedFree: called with a block of the program or with NULL
HookedFree(t) == \E ptr \in ProgramBlocks \cup {NullPtr} : FreeRecord(t, ptr)

\* HookedOperatorDelete / HookedOperatorDeleteArray: NULL returns at once
HookedOperatorDelete(t) == \E ptr \in ProgramBlocks : FreeRecord(t, ptr)

\* HookedFree / HookedOperatorDelete: free(ptr), return
FreeReal(t) ==
  /\ mpc[t] = "free_real"
  /\ heap' = Drop(heap, mptr[t])
  /\ MemReturn(t)
  /\ UNCHANGED <<trackerVars, mops, lockVars, hookVars, entry>>

\* HookedRealloc: new_ptr = realloc(old_ptr, new_size), the real call having
\* one of the given results
ReallocCall(t, old_ptr, new_size, results) ==
  /\ mpc[t] = "idle"
  /\ mops < MaxMemOps
  /\ mops' = mops + 1
  /\ \E r \in results :
       /\ heap' = r[2]
       /\ MemGoto(t, "realloc_record", old_ptr, r[1], new_size)
  /\ UNCHANGED <<trackerVars, lockVars, hookVars, entry>>

\* HookedRealloc: new_ptr = realloc(old_ptr, new_size)
ReallocReal(t, old_ptr, new_size) ==
  ReallocCall(t, old_ptr, new_size, RealRealloc(heap, old_ptr, new_size))

\* HookedRealloc: called with a block of the program or with NULL, and with
\* any size
HookedRealloc(t) ==
  \E old_ptr \in ProgramBlocks \cup {NullPtr}, new_size \in Sizes :
    ReallocReal(t, old_ptr, new_size)

\* the realloc that moves the block, with RecordDeallocation forgotten
ReallocMovedFree_Skipped(t) ==
  /\ mpc[t] = "realloc_record"
  /\ mnew[t] # NullPtr
  /\ mnew[t] # mptr[t]
  /\ MemGoto(t, "realloc_alloc", mptr[t], mnew[t], msize[t])
  /\ UNCHANGED <<trackerVars, heap, mops, lockVars, hookVars, entry>>

\* HookedRealloc that records the old block as freed when the real realloc
\* returned null
ReallocNull_RecordsFree(t) ==
  /\ mpc[t] = "realloc_record"
  /\ mnew[t] = NullPtr
  /\ SetTracker(RecordDeallocation(Tracker, mptr[t]))
  /\ MemReturn(t)
  /\ UNCHANGED <<heap, mops, lockVars, hookVars, entry>>

\* HookedRealloc: new_ptr == nullptr, return nullptr
ReallocNull(t) ==
  /\ mpc[t] = "realloc_record"
  /\ mnew[t] = NullPtr
  /\ MemReturn(t)
  /\ UNCHANGED <<trackerVars, heap, mops, lockVars, hookVars, entry>>

\* HookedRealloc: new_ptr == original_ptr, UpdateAllocationSize, return
ReallocInPlace(t) ==
  /\ mpc[t] = "realloc_record"
  /\ mnew[t] # NullPtr
  /\ mnew[t] = mptr[t]
  /\ SetTracker(UpdateAllocationSize(Tracker, mnew[t], msize[t]))
  /\ MemReturn(t)
  /\ UNCHANGED <<heap, mops, lockVars, hookVars, entry>>

\* HookedRealloc: new_ptr != original_ptr, RecordDeallocation(original_ptr)
ReallocMovedFree(t) ==
  /\ mpc[t] = "realloc_record"
  /\ mnew[t] # NullPtr
  /\ mnew[t] # mptr[t]
  /\ SetTracker(RecordDeallocation(Tracker, mptr[t]))
  /\ MemGoto(t, "realloc_alloc", mptr[t], mnew[t], msize[t])
  /\ UNCHANGED <<heap, mops, lockVars, hookVars, entry>>

\* HookedRealloc: then RecordAllocation(new_ptr, new_size), return
ReallocMovedAlloc(t) ==
  /\ mpc[t] = "realloc_alloc"
  /\ SetTracker(RecordAllocation(Tracker, mnew[t], msize[t]))
  /\ MemReturn(t)
  /\ UNCHANGED <<heap, mops, lockVars, hookVars, entry>>

MemInit ==
  /\ allocations = EmptyMap
  /\ total_allocated = 0
  /\ total_freed = 0
  /\ active_allocations = 0
  /\ heap = EmptyMap
  /\ mpc = [t \in Threads |-> "idle"]
  /\ mptr = [t \in Threads |-> NullPtr]
  /\ mnew = [t \in Threads |-> NullPtr]
  /\ msize = [t \in Threads |-> 0]
  /\ mops = 0
  /\ entry = <<"none", NullPtr, 0>>

\* --------------------------------------------------------- specifications
NoScript == [t \in Threads |-> <<>>]

\* LockHook::Start has returned on an object that imports the three symbols
StartDone ==
  /\ got = [f \in Range(Symbols) |-> "hooked"]
  /\ g_orig = [f \in Range(Symbols) |-> "real"]
  /\ start_pc = <<Len(Symbols), "returned">>

\* the tracker and the target process before the first call
LockState(script) ==
  /\ active_locks = EmptyMap
  /\ thread_info = EmptyMap
  /\ mutex_ = NoThread
  /\ result = [t \in Threads |-> 0]
  /\ report = <<>>
  /\ reported = {}
  /\ mutex_owner = [m \in Mutexes |-> NoThread]
  /\ pc = [t \in Threads |-> "idle"]
  /\ arg = [t \in Threads |-> NullAddr]
  /\ calls = 0
  /\ prog = script
  /\ ip = [t \in Threads |-> 1]
  /\ MemInit

\* the patcher's object when no user calls the patcher directly
PltIdle == PltInit(PlainTable, {}, {PROT_READ, PROT_WRITE}, TRUE)

LockInit(script) == LockState(script) /\ StartDone /\ PltIdle

\* any program over the mutex interposers
Init == LockInit(NoScript)

Next ==
  \E t \in Threads :
    \/ CallLock(t, MaxCalls)
    \/ CallTrylock(t, MaxCalls)
    \/ CallUnlock(t)
    \/ LockStep(t)

Spec == Init /\ [][Next]_vars

\* the same programs, followed for more calls
NextDeep ==
  \E t \in Threads :
    \/ CallLock(t, MaxCallsDeep)
    \/ CallTrylock(t, MaxCallsDeep)
    \/ CallUnlock(t)
    \/ LockStep(t)

SpecDeep == Init /\ [][NextDeep]_vars

\* the same programs, with the locking of the tracker's guard as a step of its
\* own, so that a thread is seen holding the guard
NextGuard ==
  \E t \in Threads :
    \/ CallLock(t, MaxCallsGuard)
    \/ CallTrylock(t, MaxCallsGuard)
    \/ CallUnlock(t)
    \/ GuardLock(t)
    \/ LockStep(t)

SpecGuard == Init /\ [][NextGuard]_vars

\* the target's threads call the mutex primitives while LockHook::Start runs
\* on an object that imports some or all of the three symbols
InitStart ==
  /\ LockState(NoScript)
  /\ got \in [Range(Symbols) -> {"real", "absent"}]
  /\ g_orig = [f \in Range(Symbols) |-> Nullptr]
  /\ start_pc = <<1, "replace">>
  /\ PltIdle

NextStart ==
  \/ \E i \in 1..Len(Symbols) :
       \/ StartReplace(i)
       \/ StartNotFound(i)
       \/ StartAssign(i)
  \/ \E t \in Threads :
       \/ CallLock(t, MaxCallsStart)
       \/ CallTrylock(t, MaxCallsStart)
       \/ CallUnlock(t)
       \/ DirectLock(t, MaxCallsStart)
       \/ DirectTrylock(t, MaxCallsStart)
       \/ DirectUnlock(t)
       \/ LockStep(t)
       \/ CallThroughNull(t)

SpecStart == InitStart /\ [][NextStart]_vars

\* a user of PltHook makes ReplaceFunction calls on an object
InitPlt ==
  /\ LockState(NoScript)
  /\ StartDone
  /\ \E table \in Tables, prot \in {{PROT_READ}, {PROT_READ, PROT_WRITE}},
        known \in BOOLEAN :
       \E resolved \in {{}, 1..Len(table)} : PltInit(table, resolved, prot, known)

NextPlt ==
  \/ CallReplace
  \/ CallRestore

SpecPlt == InitPlt /\ [][NextPlt]_vars

\* a user enumerating the relocation table of an object: tables of up to
\* MaxRela entries of both types, in any order
RelaEntries ==
  { Rela("R_X86_64_JUMP_SLOT", <<"m">>, 24), Rela("R_X86_64_JUMP_SLOT", <<"x">>, 8),
    Rela("R_X86_64_JUMP_SLOT", <<"m", "x">>, 40),
    Rela("R_X86_64_GLOB_DAT", <<"m">>, 16), Rela("R_X86_64_GLOB_DAT", <<"x">>, 32) }

EnumTables == UNION {[1..n -> RelaEntries] : n \in 0..MaxRela}

InitEnum ==
  /\ LockState(NoScript)
  /\ StartDone
  /\ \E table \in EnumTables : PltInit(table, {}, {PROT_READ}, TRUE)

NextEnum == CallEnumerate

SpecEnum == InitEnum /\ [][NextEnum]_vars

\* the deadlock search on the lock maps the tracker can hold: any set of
\* mutexes has a record with its owner, a record's waiting_for is any set of
\* addresses: edges are added from every held lock to the requested one, the
\* requested one included, and stay when their target's record is erased
Graph(D, o, w) ==
  [m \in D |-> [lock_addr |-> m, owner_thread |-> o[m], waiting_for |-> w[m],
                acquired |-> o[m] # NoThread]]

InitDFS ==
  /\ \E D \in SUBSET SearchLocks :
       \E o \in [D -> Threads], w \in [D -> SUBSET SearchLocks] :
         active_locks = Graph(D, o, w)
  /\ thread_info = EmptyMap
  /\ mutex_ = NoThread
  /\ result = [t \in Threads |-> 0]
  /\ report = <<>>
  /\ reported = {}
  /\ mutex_owner = [m \in Mutexes |-> NoThread]
  /\ pc = [t \in Threads |-> "idle"]
  /\ arg = [t \in Threads |-> NullAddr]
  /\ calls = 0
  /\ prog = NoScript
  /\ ip = [t \in Threads |-> 1]
  /\ MemInit
  /\ StartDone
  /\ PltIdle

NextDFS == CallDetectDeadlock

SpecDFS == InitDFS /\ [][NextDFS]_vars

\* the hooks of both detectors started on one loaded object
FullTable ==
  [i \in 1..(Len(MemorySymbols) + Len(Symbols)) |->
     IF i <= Len(MemorySymbols) THEN JumpSlot(NameOf(MemorySymbols[i]))
     ELSE JumpSlot(NameOf(Symbols[i - Len(MemorySymbols)]))]

\* an object that calls none of calloc, operator new[], operator delete[] and
\* pthread_mutex_trylock, and one that calls neither malloc nor
\* pthread_mutex_unlock
StartTables ==
  { FullTable,
    SelectSeq(FullTable, LAMBDA e : e.name \notin {NameOf("calloc"), NameOf("_Znam"),
                                                    NameOf("_ZdaPv"),
                                                    NameOf("pthread_mutex_trylock")}),
    SelectSeq(FullTable, LAMBDA e : e.name \notin {NameOf("malloc"),
                                                    NameOf("pthread_mutex_unlock")}) }

InitHookStart ==
  /\ LockState(NoScript)
  /\ got = [f \in Range(Symbols) |-> "real"]
  /\ g_orig = [f \in Range(Symbols) |-> Null]
  /\ start_pc = <<Len(Symbols), "returned">>
  /\ \E table \in StartTables, prot \in {{PROT_READ}, {PROT_READ, PROT_WRITE}},
        known \in BOOLEAN :
       PltInit(table, {}, prot, known)

NextHookStart ==
  \/ CallStart
  \/ StartAttempt
  \/ StartReturn

SpecHookStart == InitHookStart /\ [][NextHookStart]_vars

\* a program that initialises the detector, registers objects and starts it
NextDetector ==
  \/ DetectorInit
  \/ DetectorRegister
  \/ DetectorRegisterMain
  \/ DetectorStart
  \/ HookStart
  \/ HookStartThrows

SpecDetector == Init /\ [][NextDetector]_vars

\* scripted programs
NextScript ==
  \E t \in Threads :
    \/ CallScript(t)
    \/ LockIntent(t)
    \/ LockReal(t)
    \/ LockSuccess(t)
    \/ UnlockRelease(t)
    \/ UnlockReal(t)

MutexA == 1
MutexB == 2
Lock(m) == <<"lock_intent", m, NullAddr>>
Unlock(m) == <<"unlock_release", m, NullAddr>>
\* lock m once another thread holds it
LockHeld(m) == <<"lock_intent", m, m>>

\* examples/deadlock_test.cpp: ThreadFunc1 locks a, sleeps, locks b;
\* ThreadFunc2 locks b, sleeps, locks a; each then unlocks both.  The sleep is
\* modelled by its purpose: the second lock is called while the other thread
\* holds that mutex
ThreadFunc1 == <<Lock(MutexA), LockHeld(MutexB), Unlock(MutexB), Unlock(MutexA)>>
ThreadFunc2 == <<Lock(MutexB), LockHeld(MutexA), Unlock(MutexA), Unlock(MutexB)>>

\* the same threads without the sleep
ThreadFunc1NoSleep == [ThreadFunc1 EXCEPT ![2] = Lock(MutexB)]
ThreadFunc2NoSleep == [ThreadFunc2 EXCEPT ![2] = Lock(MutexA)]

InitABBA ==
  \E p1 \in {ThreadFunc1, ThreadFunc1NoSleep}, p2 \in {ThreadFunc2, ThreadFunc2NoSleep} :
    LockInit([t \in Threads |-> IF t = 1 THEN p1 ELSE IF t = 2 THEN p2 ELSE <<>>])

SpecABBA == InitABBA /\ [][NextScript]_vars

\* two threads that both lock a then b and unlock both, in either order
SameOrderProgs ==
  {<<Lock(MutexA), Lock(MutexB), Unlock(MutexB), Unlock(MutexA)>>,
   <<Lock(MutexA), Lock(MutexB), Unlock(MutexA), Unlock(MutexB)>>}

InitSameOrder ==
  \E p1 \in SameOrderProgs, p2 \in SameOrderProgs :
    LockInit([t \in Threads |-> IF t = 1 THEN p1 ELSE IF t = 2 THEN p2 ELSE <<>>])

SpecSameOrder == InitSameOrder /\ [][NextScript]_vars

\* ------------------------------------------- DetectorDetect on the lock tracker
\* the thread that calls DetectorDetect: main, which is none of the target
\* threads
DetectCaller == NumThreads + 1

\* two target threads each blocked in the real pthread_mutex_lock on a mutex
\* the other one holds
Deadlocked ==
  \E t, u \in Threads :
    /\ t # u
    /\ pc[t] = "lock_real" /\ mutex_owner[arg[t]] = u
    /\ pc[u] = "lock_real" /\ mutex_owner[arg[u]] = t

DetectUnchanged ==
  /\ UNCHANGED <<active_locks, thread_info, report, reported, mutex_owner, pc, arg,
                 calls, prog, ip, result>>
  /\ UNCHANGED <<rela_plt, got_word, page_prot, memory_protections, error_message,
                 caller, before, enumeration, startup, detector, search, got, g_orig,
                 start_pc, memVars>>

\* main calls DetectorDetect(): LockDetectImpl::Detect calls PrintStatus
DetectCall ==
  /\ detect.pc = "idle"
  /\ detect' = [pc |-> "lock_guard", deadlocked |-> Deadlocked]
  /\ UNCHANGED mutex_
  /\ DetectUnchanged

\* PrintStatus: std::lock_guard<std::mutex> lock(mutex_)
DetectGuard ==
  /\ detect.pc = "lock_guard"
  /\ mutex_ = NoThread
  /\ mutex_' = DetectCaller
  /\ detect' = [detect EXCEPT !.pc = "print"]
  /\ DetectUnchanged

\* PrintStatus: the lock map and the thread map are printed, the guard is
\* released at the closing brace
DetectPrint ==
  /\ detect.pc = "print"
  /\ mutex_ = DetectCaller
  /\ mutex_' = GuardAtReturn(DetectCaller)
  /\ detect' = [detect EXCEPT !.pc = "returned"]
  /\ DetectUnchanged

\* the steps of target thread t in examples/deadlock_test.cpp, the
\* lock_guard of a tracker operation being a step of its own or part of the
\* operation
ThreadStep(t) ==
  \/ CallScript(t)
  \/ GuardLock(t)
  \/ LockIntent(t)
  \/ LockReal(t)
  \/ LockSuccess(t)
  \/ UnlockRelease(t)
  \/ UnlockReal(t)

NextDetect ==
  \/ \E t \in Threads : ThreadStep(t)
  \/ DetectCall
  \/ DetectGuard
  \/ DetectPrint

\* a thread that can run does run: the target threads while they are not
\* blocked in the real pthread_mutex_lock, main once it has called
\* DetectorDetect and the guard is free
SpecDetect ==
  /\ InitABBA
  /\ [][NextDetect]_vars
  /\ \A t \in Threads : WF_vars(ThreadStep(t))
  /\ WF_vars(DetectGuard)
  /\ WF_vars(DetectPrint)

\* a single-threaded program over malloc / calloc / operator new and free /
\* operator delete
MainThread == 1

NextMem1 ==
  \/ HookedMalloc(MainThread)
  \/ HookedCalloc(MainThread)
  \/ HookedOperatorNew(MainThread)
  \/ AllocRecord(MainThread)
  \/ HookedFree(MainThread)
  \/ HookedOperatorDelete(MainThread)
  \/ FreeReal(MainThread)

SpecMem1 == Init /\ [][NextMem1]_vars

\* several threads over malloc, free and realloc (with a non-zero size: the
\* realloc that resizes or moves a block)
NextMemMT ==
  \E t \in Threads :
    \/ \E size \in MTSizes : AllocReal(t, size)
    \/ AllocRecord(t)
    \/ HookedFree(t)
    \/ FreeReal(t)
    \/ \E old \in ProgramBlocks, size \in MTSizes : ReallocReal(t, old, size)
    \/ ReallocNull(t)
    \/ ReallocInPlace(t)
    \/ ReallocMovedFree(t)
    \/ ReallocMovedAlloc(t)

SpecMemMT == Init /\ [][NextMemMT]_vars

\* a single-threaded program over malloc, free and realloc, realloc(NULL, n)
\* and realloc(p, 0) included
NextRealloc1 ==
  \/ HookedMalloc(MainThread)
  \/ AllocRecord(MainThread)
  \/ HookedFree(MainThread)
  \/ FreeReal(MainThread)
  \/ HookedRealloc(MainThread)
  \/ ReallocNull(MainThread)
  \/ ReallocInPlace(MainThread)
  \/ ReallocMovedFree(MainThread)
  \/ ReallocMovedAlloc(MainThread)

SpecRealloc1 == Init /\ [][NextRealloc1]_vars

\* examples/memory_leak_test.cpp, TestReallocInPlace: ptr = malloc(a);
\* new_ptr = realloc(ptr, b), the real realloc resizing the block in place;
\* free(new_ptr).  prog holds the two sizes, mops is the number of calls to
\* malloc and realloc made so far
InPlaceSizes == {64, 1024, 2048}

InPlaceResults(old_ptr, new_size) ==
  {r \in RealRealloc(heap, old_ptr, new_size) : r[1] = old_ptr}

TestMalloc ==
  /\ mops = 0
  /\ AllocReal(MainThread, prog[MainThread][1])

TestRealloc ==
  /\ mops = 1
  /\ \E ptr \in ProgramBlocks :
       ReallocCall(MainThread, ptr, prog[MainThread][2],
                   InPlaceResults(ptr, prog[MainThread][2]))

TestFree ==
  /\ mops = 2
  /\ \E new_ptr \in ProgramBlocks : FreeRecord(MainThread, new_ptr)

InitReallocInPlace ==
  \E a \in InPlaceSizes \cup {0}, b \in InPlaceSizes :
    LockInit([t \in Threads |-> IF t = MainThread THEN <<a, b>> ELSE <<>>])

NextReallocInPlace ==
  \/ TestMalloc
  \/ AllocRecord(MainThread)
  \/ TestRealloc
  \/ ReallocInPlace(MainThread)
  \/ TestFree
  \/ FreeReal(MainThread)

SpecReallocInPlace == InitReallocInPlace /\ [][NextReallocInPlace]_vars

\* the tracker driven directly: any sequence of its three operations
TrackerCall(name, ptr, size, st) ==
  /\ mops < MaxMemOps
  /\ mops' = mops + 1
  /\ entry' = <<name, ptr, size>>
  /\ SetTracker(st)
  /\ UNCHANGED <<heap, mpc, mptr, mnew, msize, lockVars, hookVars>>

CallRecordAllocation ==
  \E p \in Addrs \cup {NullPtr}, n \in Sizes :
    TrackerCall("RecordAllocation", p, n, RecordAllocation(Tracker, p, n))

CallRecordDeallocation ==
  \E p \in Addrs \cup {NullPtr} :
    TrackerCall("RecordDeallocation", p, 0, RecordDeallocation(Tracker, p))

CallUpdateAllocationSize ==
  \E p \in Addrs \cup {NullPtr}, n \in Sizes :
    TrackerCall("UpdateAllocationSize", p, n, UpdateAllocationSize(Tracker, p, n))

NextTracker ==
  \/ CallRecordAllocation
  \/ CallRecordDeallocation
  \/ CallUpdateAllocationSize

SpecTracker == Init /\ [][NextTracker]_vars

\* ------------------------------------------------------------ properties
HeldBy(t) == Range(ThreadAt(thread_info, t).held_locks)
WaitingOf(t) == Range(ThreadAt(thread_info, t).waiting_locks)

\* thread t is blocked in the real pthread_mutex_lock on m, which u holds
BlockedOn(t, m, u) == pc[t] = "lock_real" /\ arg[t] = m /\ mutex_owner[m] = u

\* C1: in the ABBA program where each thread calls its second lock while the
\* other thread holds that mutex, once thread 1 (holding a) is blocked on b
\* and thread 2 (holding b) is blocked on a, a potential-deadlock chain
\* featuring both a and b has been printed, whatever the interleaving was.
C1_ABBADetected ==
  (/\ prog[1] = ThreadFunc1 /\ prog[2] = ThreadFunc2
   /\ BlockedOn(1, MutexB, 2) /\ BlockedOn(2, MutexA, 1))
    => \E r \in reported : {MutexA, MutexB} \subseteq r

\* "T waits on owner-of(M waited by T)", read off the tracker's records
WaitsOnOwner(t, u) ==
  \E m \in WaitingOf(t) :
    m \in DOMAIN active_locks /\ active_locks[m].owner_thread = u

\* a non-empty set of threads each waiting on a mutex owned by one of them:
\* a finite graph has a directed cycle iff such a set exists
HasWaitCycle ==
  \E S \in (SUBSET Threads) \ {{}} :
    \A t \in S : \E u \in S : WaitsOnOwner(t, u)

\* C3: whenever the deadlock search has just reported a chain, the threads'
\* waiting-lists and the recorded owners contain a directed cycle of the
\* relation "T waits on a mutex whose recorded owner is U".
C3_CycleSoundness == report # <<>> => HasWaitCycle

\* the same relation read generously: T counts as waiting on M also when it is
\* blocked in the real lock on M, and U as owning M also when it really holds it
ReallyWaitsOn(t, u) ==
  \/ WaitsOnOwner(t, u)
  \/ \E m \in WaitingOf(t) \cup (IF pc[t] = "lock_real" THEN {arg[t]} ELSE {}) :
       \/ mutex_owner[m] = u
       \/ m \in DOMAIN active_locks /\ active_locks[m].owner_thread = u

\* a report is a false alarm when not even the generous relation has a cycle
C3_NoFalseAlarm ==
  report # <<>> =>
    \E S \in (SUBSET Threads) \ {{}} :
      \A t \in S : \E u \in S : ReallyWaitsOn(t, u)

\* C5: in the same-order program, once both threads have returned from their
\* last unlock the tracker holds no lock record and no thread record.
C5_Quiescence ==
  (\A t \in Threads : pc[t] = "idle" /\ ip[t] > Len(prog[t]))
    => (DOMAIN active_locks = {} /\ DOMAIN thread_info = {})

\* C6: the step that records acquire-success(M) for thread T leaves M with a
\* lock record owned by T and acquired, M in T's held-list and M out of T's
\* waiting-list.
C6_AcquireSuccessPost ==
  [][\A t \in Threads :
       (pc[t] = "lock_success" /\ pc'[t] = "idle") =>
         /\ arg[t] \in DOMAIN active_locks'
         /\ active_locks'[arg[t]].owner_thread = t
         /\ active_locks'[arg[t]].acquired
         /\ t \in DOMAIN thread_info'
         /\ arg[t] \in Range(thread_info'[t].held_locks)
         /\ arg[t] \notin Range(thread_info'[t].waiting_locks)]_vars

\* C7: M is in the waiting_for set of lock H only if some thread has H in its
\* held-list and M in its waiting-list.
C7_EdgeInvariant ==
  \A h \in DOMAIN active_locks :
    \A m \in active_locks[h].waiting_for :
      \E t \in Threads : h \in HeldBy(t) /\ m \in WaitingOf(t)

\* C8: a lock record is acquired iff some thread's held-list contains the
\* mutex, and every thread whose held-list contains a mutex is the owner
\* recorded in that mutex's (acquired) lock record.
C8_Ownership ==
  /\ \A m \in DOMAIN active_locks :
       active_locks[m].acquired <=> \E t \in Threads : m \in HeldBy(t)
  /\ \A t \in Threads : \A m \in HeldBy(t) :
       /\ m \in DOMAIN active_locks
       /\ active_locks[m].acquired
       /\ active_locks[m].owner_thread = t

\* a mutex recorded as held by one thread while another thread, having
\* recorded its intent, contends for it in the real lock
C8_Witness ==
  \E m \in Mutexes, t \in Threads, u \in Threads :
    /\ t # u
    /\ m \in HeldBy(t)
    /\ m \in WaitingOf(u)
    /\ pc[u] = "lock_real" /\ arg[u] = m

\* C9: a mutex address is in the held-list of at most one thread.
C9_ExclusiveHolding ==
  \A m \in Mutexes : Cardinality({t \in Threads : m \in HeldBy(t)}) <= 1

\* a mutex in one thread's held-list which another thread is just trying to
\* take with trylock
C9_Witness ==
  \E m \in Mutexes, t \in Threads, u \in Threads :
    /\ t # u
    /\ m \in HeldBy(t)
    /\ pc[u] = "trylock_real" /\ arg[u] = m

\* no thread is inside an allocator interposer
MemQuiet == \A t \in Threads : mpc[t] = "idle"

RECURSIVE SumSizes(_, _)
SumSizes(f, S) ==
  IF S = {} THEN 0
  ELSE LET a == CHOOSE x \in S : TRUE IN f[a] + SumSizes(f, S \ {a})

\* C2: in a single-threaded program whose allocations and frees all go
\* through the interposers, whenever the program is outside the interposers
\* the live map holds exactly the blocks allocated and not yet freed, each
\* with its requested size.
C2_LeakExactness == MemQuiet => allocations = heap

\* TestPartialFreeLeak: three blocks of 64, 128 and 256 bytes were allocated
\* and the middle one freed; two records remain, their sizes summing to 320
C2_Witness ==
  /\ MemQuiet
  /\ total_allocated = 64 + 128 + 256
  /\ total_freed = 128
  /\ Cardinality(DOMAIN allocations) = 2
  /\ SumSizes(allocations, DOMAIN allocations) = 320

\* C4: with several threads in the allocator interposers, whenever no thread
\* is inside an interposer the key set of the live map is the set of blocks
\* allocated and not yet freed.
C4_ThreadSafeMap == MemQuiet => DOMAIN allocations = DOMAIN heap

\* C10: after any sequence of tracker calls, the active counter equals the
\* number of keys of the live map.
C10_ActiveIsKeyCount == active_allocations = Cardinality(DOMAIN allocations)

\* C11: after any sequence of tracker calls, total_allocated minus
\* total_freed equals the sum of the sizes of the records in the live map.
C11_CounterBalance ==
  total_allocated - total_freed = SumSizes(allocations, DOMAIN allocations)

\* C12: a realloc through the interposer on a tracked pointer p that the real
\* realloc moves to a non-null q # p removes p's record (the active counter
\* going down by one) and then inserts q with exactly the new size (the
\* counter going up by one again): on return p has no record, q is listed
\* with the new size and the active counter is what it was before the call.
C12_DisplacedRealloc ==
  [][\A t \in Threads :
       /\ (/\ mpc[t] = "realloc_record" /\ mpc'[t] = "realloc_alloc"
           /\ mptr[t] \in DOMAIN allocations)
          => /\ mptr[t] \notin DOMAIN allocations'
             /\ active_allocations' = active_allocations - 1
       /\ (mpc[t] = "realloc_alloc" /\ mpc'[t] = "idle")
          => /\ mptr[t] \notin DOMAIN allocations'
             /\ mnew[t] \in DOMAIN allocations'
             /\ allocations'[mnew[t]] = msize[t]
             /\ active_allocations' = active_allocations + 1]_vars

\* TestReallocLeak: a block of 64 bytes was allocated and realloc has moved
\* it; the interposer has removed the old record and is about to record the
\* new block
C12_Witness ==
  /\ mpc[MainThread] = "realloc_alloc"
  /\ mops = 2
  /\ total_allocated = 64
  /\ total_freed = 64
  /\ allocations = EmptyMap
  /\ msize[MainThread] = 256

\* TestReallocInPlace has run to its end: the block was allocated, resized in
\* place and freed
InPlaceTestDone == MemQuiet /\ mops = 2 /\ heap = EmptyMap

\* C13: an in-place realloc of a tracked pointer keeps the key, sets its size
\* to the new size, leaves active and total_freed alone and changes
\* total_allocated by (new size - old size); and malloc(a), in-place realloc
\* to b, free ends with no live record and total_allocated = total_freed = b.
C13_InPlaceRealloc ==
  /\ [](InPlaceTestDone =>
          /\ allocations = EmptyMap
          /\ active_allocations = 0
          /\ total_allocated = prog[MainThread][2]
          /\ total_freed = prog[MainThread][2])
  /\ [][\A t \in Threads :
          (/\ mpc[t] = "realloc_record" /\ mpc'[t] = "idle"
           /\ mnew[t] # NullPtr /\ mnew[t] = mptr[t]
           /\ mptr[t] \in DOMAIN allocations)
          => /\ allocations' = [allocations EXCEPT ![mptr[t]] = msize[t]]
             /\ active_allocations' = active_allocations
             /\ total_freed' = total_freed
             /\ total_allocated' =
                  total_allocated + msize[t] - allocations[mptr[t]]]_vars

\* TestReallocInPlace with a = 1024 and b = 2048 has run to its end
C13_Witness ==
  /\ InPlaceTestDone
  /\ prog[MainThread] = <<1024, 2048>>
  /\ total_allocated = 2048
  /\ total_freed = 2048

\* C14: realloc(p, 0) through the interposer on a tracked pointer p, the real
\* call releasing p and returning null, leaves the tracker as free(p) through
\* the interposer does, that is as RecordDeallocation(p) does.
C14_ReallocZeroIsFree ==
  [][\A t \in Threads :
       (/\ mpc[t] = "realloc_record" /\ mpc'[t] = "idle"
        /\ msize[t] = 0 /\ mnew[t] = NullPtr
        /\ mptr[t] \in DOMAIN allocations)
       => /\ allocations' = Drop(allocations, mptr[t])
          /\ total_freed' = total_freed + allocations[mptr[t]]
          /\ active_allocations' = active_allocations - 1
          /\ total_allocated' = total_allocated]_vars

\* C16: the release of M is recorded before the real unlock is forwarded, so
\* whenever M's lock record says acquired with owner T, no thread other than
\* T holds the real mutex M.
C16_UnlockOrdering ==
  \A m \in DOMAIN active_locks :
    active_locks[m].acquired =>
      mutex_owner[m] \in {NoThread, active_locks[m].owner_thread}

\* a thread inside the unlock interposer has recorded the release of M and
\* not yet called the real unlock, while another thread is blocked in the
\* real lock on M
C16_Witness ==
  \E m \in Mutexes, t \in Threads, u \in Threads :
    /\ t # u
    /\ pc[t] = "unlock_real" /\ arg[t] = m /\ mutex_owner[m] = t
    /\ m \notin DOMAIN active_locks
    /\ pc[u] = "lock_real" /\ arg[u] = m

\* C19: when both threads lock A then B (and unlock both, in either order),
\* the deadlock search never reports a cycle.
C19_NoFalseCycle == reported = {}

\* the search has run for a thread that holds one mutex and waits for the
\* other, the edge between the two being recorded, and nothing was reported
C19_Witness ==
  /\ reported = {}
  /\ \E t \in Threads : \E h \in HeldBy(t) : \E m \in WaitingOf(t) :
       /\ h \in DOMAIN active_locks
       /\ m \in active_locks[h].waiting_for

\* C20: an acquire-intent on M by T changes waiting-lists and edges and runs
\* the search only when M's record exists and is acquired by a thread other
\* than T; in particular an intent on a mutex whose recorded owner is T
\* itself adds no waiting entry, no edge, and reports nothing.
C20_IntentOnlyOnOthers ==
  [][\A t \in Threads :
       (/\ pc[t] = "lock_intent" /\ pc'[t] = "lock_real"
        /\ ~(/\ arg[t] \in DOMAIN active_locks
              /\ active_locks[arg[t]].acquired
              /\ active_locks[arg[t]].owner_thread # t))
       => /\ ThreadAt(thread_info', t).waiting_locks =
               ThreadAt(thread_info, t).waiting_locks
          /\ \A h \in DOMAIN active_locks :
               /\ h \in DOMAIN active_locks'
               /\ active_locks'[h].waiting_for = active_locks[h].waiting_for
          /\ report' = <<>>]_vars

\* C15: the lock tracker's guard mutex is never held across a call to a real
\* mutex primitive: a thread that is at the call of g_orig_mutex_lock,
\* g_orig_mutex_trylock or g_orig_mutex_unlock (about to call, or blocked in
\* it) does not hold the guard
C15_GuardNotHeldAcrossReal ==
  \A t \in Threads :
    pc[t] \in {"lock_real", "trylock_real", "unlock_real"} => mutex_ # t

\* a thread is blocked in the real lock on a mutex another thread holds, while
\* that other thread is inside a tracker operation with the guard locked
C15_Witness ==
  \E t \in Threads, u \in Threads :
    /\ t # u
    /\ pc[t] = "lock_real"
    /\ mutex_owner[arg[t]] = u
    /\ mutex_ = u
    /\ pc[u] = "unlock_release"
    /\ arg[u] = arg[t]
\* C17: in every pthread_mutex_lock call through the interposer (1) the intent
\* is recorded before the real lock is invoked, and the real lock is invoked
\* next whether or not the search reported a cycle; (2) the success is
\* recorded only after the real lock has returned 0, and 0 is returned; (3)
\* when the real lock returns non-zero, nothing is recorded and that value is
\* passed back unchanged
C17_LockOrdering ==
  [][\A t \in Threads :
       /\ (pc[t] = "lock_intent" /\ pc'[t] # "lock_intent")
            => /\ pc'[t] = "lock_real"
               /\ mutex_owner' = mutex_owner
               /\ LET r == RecordLockAcquire(active_locks, thread_info, t, arg[t])
                  IN active_locks' = r.locks /\ thread_info' = r.threads
       /\ (pc'[t] = "lock_real" /\ pc[t] # "lock_real") => pc[t] = "lock_intent"
       /\ (pc[t] = "lock_real" /\ pc'[t] = "lock_success")
            => /\ RealLockReturns0(mutex_owner, t, arg[t])
               /\ result'[t] = 0
               /\ active_locks' = active_locks /\ thread_info' = thread_info
       /\ (pc[t] = "lock_success" /\ pc'[t] # "lock_success")
            => /\ result[t] = 0 /\ result'[t] = 0
               /\ mutex_owner[arg[t]] = t
               /\ pc'[t] = "idle"
               /\ LET r == RecordLockAcquired(active_locks, thread_info, t, arg[t])
                  IN active_locks' = r.locks /\ thread_info' = r.threads
       /\ (pc[t] = "lock_real" /\ pc'[t] \notin {"lock_real", "lock_success"})
            => /\ ~RealLockReturns0(mutex_owner, t, arg[t])
               /\ pc'[t] = "idle"
               /\ result'[t] = EDEADLK
               /\ active_locks' = active_locks /\ thread_info' = thread_info
               /\ mutex_owner' = mutex_owner]_vars

\* a thread locked a mutex it already holds: the intent was recorded and a
\* cycle reported, the real lock was still invoked and returned EDEADLK, the
\* interposer returned EDEADLK and the mutex's record is as it was
C17_Witness ==
  \E t \in Threads :
    /\ pc[t] = "idle"
    /\ result[t] = EDEADLK
    /\ reported # {}
    /\ arg[t] \in Mutexes
    /\ mutex_owner[arg[t]] = t
    /\ arg[t] \in DOMAIN active_locks
    /\ active_locks[arg[t]].acquired
    /\ active_locks[arg[t]].owner_thread = t
    /\ arg[t] \in Range(ThreadAt(thread_info, t).waiting_locks)
\* C18: while target threads call the mutex primitives concurrently with
\* Start, whenever an interposer is installed in a GOT slot the function
\* pointer it forwards to is already set, so that no interposer calls through
\* a null pointer
C18_OrigSetWhenInstalled ==
  /\ \A f \in Range(Symbols) : got[f] = "hooked" => g_orig[f] # Nullptr
  /\ \A t \in Threads : pc[t] # "crashed"
\* the waiting-list entries and the edges of a tracker state
WaitingEntries(ti) == {<<u, m>> \in Threads \X Mutexes :
                         u \in DOMAIN ti /\ m \in Range(ti[u].waiting_locks)}
Edges(al) == {<<h, m>> \in Mutexes \X Mutexes :
                h \in DOMAIN al /\ m \in al[h].waiting_for}

\* C21: a pthread_mutex_trylock through the interposer never records an
\* acquire-intent: the real trylock is called first, with the tracker
\* untouched; a trylock that fails returns with the lock records and thread
\* records as they were; the success step runs only after the real trylock
\* returned 0, and it adds no waiting-list entry and no edge and reports no
\* chain
C21_TrylockFrame ==
  [][\A t \in Threads :
       /\ (pc[t] = "trylock_real" /\ pc'[t] # "trylock_real")
            => /\ active_locks' = active_locks
               /\ thread_info' = thread_info
               /\ reported' = reported /\ report' = <<>>
               /\ IF RealTrylockReturns0(mutex_owner, t, arg[t])
                  THEN pc'[t] = "lock_success" /\ result'[t] = 0
                       /\ mutex_owner'[arg[t]] = t
                  ELSE pc'[t] = "idle" /\ result'[t] = EBUSY
                       /\ mutex_owner' = mutex_owner
       /\ (pc[t] = "lock_success" /\ pc'[t] # "lock_success")
            => /\ result[t] = 0
               /\ WaitingEntries(thread_info') \subseteq WaitingEntries(thread_info)
               /\ Edges(active_locks') \subseteq Edges(active_locks)
               /\ reported' = reported /\ report' = <<>>]_vars

\* a trylock of a mutex held by another thread has failed and returned EBUSY
\* while the tracker holds that mutex's record, and the caller has no waiting
\* entry for it
C21_Witness ==
  \E t \in Threads :
    /\ pc[t] = "idle"
    /\ result[t] = EBUSY
    /\ arg[t] \in DOMAIN active_locks
    /\ active_locks[arg[t]].acquired
    /\ active_locks[arg[t]].owner_thread # t
    /\ mutex_owner[arg[t]] = active_locks[arg[t]].owner_thread
    /\ arg[t] \notin WaitingOf(t)
\* C22: between tracker operations every thread record has a non-empty
\* held-list or a non-empty waiting-list; Release(M) by T erases M's lock
\* record, removes M from T's held-list, erases T's thread record exactly when
\* both of T's lists are then empty, and changes no other lock's record or
\* edge set and no other thread's record
C22_ThreadRecordGC ==
  /\ [](\A u \in DOMAIN thread_info :
          thread_info[u].held_locks # <<>> \/ thread_info[u].waiting_locks # <<>>)
  /\ [][\A t \in Threads :
          (pc[t] = "unlock_release" /\ pc'[t] # "unlock_release")
          => /\ DOMAIN active_locks' = DOMAIN active_locks \ {arg[t]}
             /\ \A m \in DOMAIN active_locks' : active_locks'[m] = active_locks[m]
             /\ \A u \in Threads \ {t} :
                  /\ u \in DOMAIN thread_info' <=> u \in DOMAIN thread_info
                  /\ u \in DOMAIN thread_info => thread_info'[u] = thread_info[u]
             /\ t \notin DOMAIN thread_info => t \notin DOMAIN thread_info'
             /\ t \in DOMAIN thread_info =>
                  LET rest == SelectSeq(thread_info[t].held_locks,
                                        LAMBDA h : h # arg[t])
                      waiting == thread_info[t].waiting_locks
                  IN /\ t \in DOMAIN thread_info' <=> (rest # <<>> \/ waiting # <<>>)
                     /\ t \in DOMAIN thread_info' =>
                          /\ thread_info'[t].held_locks = rest
                          /\ thread_info'[t].waiting_locks = waiting]_vars

\* a thread has released its only mutex and its thread record is gone, while
\* another thread's record and the record of the mutex that thread holds are
\* still there
C22_Witness ==
  \E t \in Threads, u \in Threads :
    /\ t # u
    /\ pc[t] = "unlock_real"
    /\ arg[t] \notin DOMAIN active_locks
    /\ t \notin DOMAIN thread_info
    /\ u \in DOMAIN thread_info
    /\ \E h \in HeldBy(u) : h \in DOMAIN active_locks /\ active_locks[h].owner_thread = u
\* the tracker after a step is the tracker before it with a record q of size
\* n inserted, total_allocated grown by n and active grown by 1
RecordInserted(q, n) ==
  /\ DOMAIN allocations' = DOMAIN allocations \cup {q}
  /\ allocations'[q] = n
  /\ \A p \in DOMAIN allocations \ {q} : allocations'[p] = allocations[p]
  /\ total_allocated' = total_allocated + n
  /\ active_allocations' = active_allocations + 1
  /\ total_freed' = total_freed

TrackerUnchanged ==
  /\ allocations' = allocations
  /\ total_allocated' = total_allocated
  /\ total_freed' = total_freed
  /\ active_allocations' = active_allocations

\* C23: realloc(null, n) is equivalent to malloc(n): a realloc(null, n)
\* through the interposer that returns non-null q changes the tracker as a
\* malloc(n) through the interposer returning q does: a record q with size n
\* is inserted, total_allocated grows by n, active grows by 1 and total_freed
\* is unchanged
C23_ReallocNullIsMalloc ==
  [][\A t \in Threads :
       /\ (mpc[t] = "realloc_record" /\ mptr[t] = NullPtr /\ mnew[t] # NullPtr
             /\ mpc'[t] # "realloc_record")
            => mpc'[t] = "realloc_alloc" /\ mnew'[t] = mnew[t] /\ msize'[t] = msize[t]
               /\ mptr'[t] = NullPtr /\ TrackerUnchanged
       /\ (mpc[t] = "realloc_alloc" /\ mptr[t] = NullPtr /\ mpc'[t] # "realloc_alloc")
            => mpc'[t] = "idle" /\ RecordInserted(mnew[t], msize[t])
       /\ (mpc[t] = "alloc_record" /\ mptr[t] # NullPtr /\ mpc'[t] # "alloc_record")
            => mpc'[t] = "idle" /\ RecordInserted(mptr[t], msize[t])]_vars

\* a realloc(null, 64) returned a block and the interposer, past its
\* RecordDeallocation(null), is about to record the block
C23_Witness ==
  /\ mpc[MainThread] = "realloc_alloc"
  /\ mptr[MainThread] = NullPtr
  /\ mnew[MainThread] \in DOMAIN heap
  /\ msize[MainThread] = 64
  /\ heap[mnew[MainThread]] = 64
  /\ allocations # EmptyMap
  /\ active_allocations = 1
\* C24: an in-place realloc of a live tracked pointer to the size already
\* recorded for it leaves the key set of the live map and the three counters
\* as they were
C24_SameSizeRealloc ==
  [][\A t \in Threads :
       (/\ mpc[t] = "realloc_record"
        /\ mnew[t] # NullPtr
        /\ mnew[t] = mptr[t]
        /\ mptr[t] \in DOMAIN allocations
        /\ allocations[mptr[t]] = msize[t]
        /\ mpc'[t] # "realloc_record")
       => /\ mpc'[t] = "idle"
          /\ DOMAIN allocations' = DOMAIN allocations
          /\ total_allocated' = total_allocated
          /\ total_freed' = total_freed
          /\ active_allocations' = active_allocations]_vars

\* the real realloc has resized a tracked block of recorded size 64 to 64
\* bytes in place, and the interposer is about to update the record
C24_Witness ==
  /\ mpc[MainThread] = "realloc_record"
  /\ mnew[MainThread] = mptr[MainThread]
  /\ mptr[MainThread] \in DOMAIN allocations
  /\ allocations[mptr[MainThread]] = 64
  /\ msize[MainThread] = 64
  /\ total_allocated = 64
\* C25: RecordAllocation(null, n), RecordDeallocation(p) with p null or not in
\* the live map, and UpdateAllocationSize(p, n) with p null or not in the live
\* map leave the live map and the three counters unchanged
C25_NoOpEntries ==
  [][(mops' # mops /\ entry'[1] # "none")
      => LET name == entry'[1]
             p == entry'[2]
         IN (\/ name = "RecordAllocation" /\ p = NullPtr
             \/ /\ name \in {"RecordDeallocation", "UpdateAllocationSize"}
                /\ (p = NullPtr \/ p \notin DOMAIN allocations))
            => TrackerUnchanged]_vars

\* UpdateAllocationSize(p, 64) has been called for a non-null p that has no
\* record, while another pointer has one
C25_Witness ==
  /\ entry[1] = "UpdateAllocationSize"
  /\ entry[2] # NullPtr
  /\ entry[2] \notin DOMAIN allocations
  /\ entry[3] = 64
  /\ allocations # EmptyMap
  /\ active_allocations = 1
\* a call of ReplaceFunction has just returned
ReplaceReturned == caller'.calls # caller.calls

\* C26: on every exit path of ReplaceFunction, success or error return, the
\* protection of the page holding the GOT word (and of every other page) is
\* what it was before the call; a page that was not writable before the call
\* is not left writable
C26_ScopedProtection ==
  [][ReplaceReturned
      => /\ page_prot' = page_prot
         /\ \A p \in DOMAIN page_prot :
              PROT_WRITE \notin page_prot[p] => PROT_WRITE \notin page_prot'[p]]_vars
\* entry i of the table is a JUMP_SLOT entry for the symbol
IsSlotOf(i, funcname) ==
  /\ rela_plt[i].r_type = "R_X86_64_JUMP_SLOT"
  /\ NameMatches(rela_plt[i].name, funcname)

\* C27: after a successful ReplaceFunction(S, F, &old), old is the address
\* the symbol lookup returned for S, whatever the GOT word held before (the
\* lazy-binding stub, the real function or an interposer of an earlier
\* patch); the GOT word of the first matching JUMP_SLOT entry in table order
\* holds F, and every other GOT word is unchanged
C27_PatchResult ==
  [][(ReplaceReturned /\ caller'.ret = "kSuccess")
      => /\ caller'.stage = "patched"
              => caller'.oldfunc = Real(caller'.funcname)
         /\ \E i \in DOMAIN rela_plt :
              /\ IsSlotOf(i, caller'.funcname)
              /\ \A j \in 1..(i - 1) : ~IsSlotOf(j, caller'.funcname)
              /\ got_word'[i] = caller'.newfunc
              /\ \A j \in DOMAIN got_word \ {i} : got_word'[j] = got_word[j]]_vars

\* ReplaceFunction("m", F, &old) has succeeded on a table with two matching
\* entries, m@v before m: the word of m@v held an interposer of an earlier
\* patch and holds F now, and old is the real m
C27_Witness ==
  /\ caller.stage = "patched"
  /\ caller.funcname = <<"m">>
  /\ caller.oldfunc = Real(<<"m">>)
  /\ rela_plt[2].name = <<"m", "@", "v">>
  /\ rela_plt[3].name = <<"m">>
  /\ before.got_word[2] \in Interposers
  /\ got_word[2] = caller.newfunc
  /\ got_word[2] # before.got_word[2]
  /\ got_word[3] \notin Interposers
\* symbol names: identifiers, and identifiers with a version suffix
Identifiers == {<<a>> : a \in {"m", "x"}} \cup {<<a, b>> : a, b \in {"m", "x"}}
VersionTokens == {<<"v">>, <<"v", "v">>}
EntryNames == Identifiers \cup {id \o <<"@">> \o v : id \in Identifiers, v \in VersionTokens}

\* the name is S, or S followed by '@' and a version token
IsNameOf(name, S) == name = S \/ \E v \in VersionTokens : name = S \o <<"@">> \o v

\* entry i of the table is a JUMP_SLOT entry whose name is S or S@version
IsEntryOf(i, S) ==
  rela_plt[i].r_type = "R_X86_64_JUMP_SLOT" /\ IsNameOf(rela_plt[i].name, S)

\* C28: ReplaceFunction(S, ...) treats a PLT entry as a match if and only if
\* the entry's name equals S or is S followed by '@' and a version token: a
\* name that has S as a proper prefix, or is a proper prefix of S, is no
\* match. So the entry a call patches is the first entry of that kind, and a
\* call for a symbol the lookup finds fails with kFunctionNotFound exactly
\* when the table has no entry of that kind
C28_NameMatching ==
  /\ [](\A name \in EntryNames, S \in Identifiers :
          NameMatches(name, S) <=> IsNameOf(name, S))
  /\ [][(ReplaceReturned /\ Dlsym(caller'.funcname) # Null)
         => LET S == caller'.funcname
                entries == {i \in DOMAIN rela_plt : IsEntryOf(i, S)}
            IN /\ caller'.ret = "kFunctionNotFound" <=> entries = {}
               /\ entries = {} => got_word' = got_word
               /\ entries # {} =>
                    LET first == CHOOSE i \in entries : \A j \in entries : i <= j
                    IN \A j \in DOMAIN got_word \ {first} : got_word'[j] = got_word[j]]_vars

\* ReplaceFunction("m", ...) has returned kFunctionNotFound on a table whose
\* only JUMP_SLOT entries are mx@v and x: the name mx@v, which starts with m,
\* was no match, and no GOT word has changed
C28_Witness ==
  /\ caller.funcname = <<"m">>
  /\ caller.ret = "kFunctionNotFound"
  /\ rela_plt[1] = JumpSlot(<<"m", "x", "@", "v">>)
  /\ rela_plt[3] = GlobDat(<<"m">>)
  /\ got_word = before.got_word
  /\ error_message.text = "No such function"
\* a call has left the GOT, the page protections and the caller's out-slot
\* as they were
TargetUntouched ==
  /\ got_word' = got_word
  /\ page_prot' = page_prot
  /\ caller'.oldfunc = caller.oldfunc

\* C29: ReplaceFunction returns kFunctionNotFound when the symbol lookup fails
\* or no JUMP_SLOT entry matches S, and kInternalError when the protection of
\* the GOT page is unknown or cannot be widened; in each of these cases no
\* GOT word, no page protection and not the caller's out-slot has been
\* modified, and the last-error message describes this failure
C29_ErrorsLeaveTargetUntouched ==
  [][ReplaceReturned
      => LET S == caller'.funcname
             ret == caller'.ret
             msg == error_message'
             entries == {i \in DOMAIN rela_plt : IsSlotOf(i, S)}
             absent == Dlsym(S) = Null \/ entries = {}
             page == PageOf(CHOOSE i \in entries : \A j \in entries : i <= j)
         IN /\ absent <=> ret = "kFunctionNotFound"
            /\ absent => TargetUntouched /\ msg = SetError("No such function", S, 0)
            /\ (~absent /\ memory_protections = {})
                 => /\ ret = "kInternalError"
                    /\ TargetUntouched
                    /\ msg = SetError("Could not get memory protection", <<>>, page)
            /\ (~absent /\ ret = "kInternalError"
                        /\ msg.text = "Could not change memory protection")
                 => /\ PROT_WRITE \notin memory_protections
                    /\ TargetUntouched
                    /\ msg = SetError("Could not change memory protection", <<>>, page)
            /\ (ret = "kInternalError" /\ msg.text # "Could not restore memory protection")
                 => /\ TargetUntouched
                    /\ msg.text \in {"Could not get memory protection",
                                      "Could not change memory protection"}]_vars

\* after a successful patch, a second ReplaceFunction found the page
\* read-only and could not widen it: it returned kInternalError with the
\* message of that failure, and the GOT, the protections and the out-slot
\* are as they were
C29_Witness ==
  /\ caller.calls = 2
  /\ caller.ret = "kInternalError"
  /\ error_message.text = "Could not change memory protection"
  /\ error_message.page = 2
  /\ got_word = before.got_word
  /\ page_prot = before.page_prot
  /\ \E i \in DOMAIN got_word : got_word[i] \in Interposers
  /\ caller.oldfunc # Null
\* C30: ReplaceFunction(S, F, &old) followed by ReplaceFunction(S, old), both
\* successful, leaves every GOT slot dispatching calls to the function it
\* dispatched to before the first patch, whatever the slot held then, and
\* leaves the page protections as they were (stated for histories in which
\* no call of the patcher has failed)
C30_PatchRestoreRoundTrip ==
  (caller.stage = "restored" /\ caller.ret = "kSuccess" /\ error_message = NoError)
  => /\ \A i \in DOMAIN got_word :
          Dispatch(got_word[i], rela_plt[i]) = Dispatch(before.got_word[i], rela_plt[i])
     /\ page_prot = before.page_prot

\* ---- C31
\* the JUMP_SLOT entries of a table, in table order, as EnumerateSymbols
\* hands them out
RECURSIVE JumpSlotsFrom(_, _)
JumpSlotsFrom(table, i) ==
  IF i > Len(table) THEN <<>>
  ELSE IF table[i].r_type = "R_X86_64_JUMP_SLOT"
       THEN <<[name |-> Str(table[i].name), addr |-> plt_addr_base + table[i].r_offset]>>
            \o JumpSlotsFrom(table, i + 1)
       ELSE JumpSlotsFrom(table, i + 1)

JumpSlots(table) == JumpSlotsFrom(table, 1)

EnumerateReturned == enumeration'.calls # enumeration.calls

\* C31: a user that starts from cursor 0 and calls EnumerateSymbols again and
\* again is handed the JUMP_SLOT entries of the table and nothing else, each
\* once, in table order, each with the address plt_addr_base + r_offset; every
\* call that hands out an entry moves the cursor forward; once the table is
\* used up the call returns kEofReached (which is not kFunctionNotFound) with
\* both out-parameters null, all JUMP_SLOT entries have been handed out, and
\* every later call returns kEofReached again
C31_Enumeration ==
  /\ [](/\ Len(enumeration.yielded) <= Len(JumpSlots(rela_plt))
        /\ enumeration.yielded
             = SubSeq(JumpSlots(rela_plt), 1, Len(enumeration.yielded))
        /\ enumeration.ret \in {"none", "kSuccess", "kEofReached"}
        /\ (enumeration.ret = "kEofReached"
              => /\ enumeration.yielded = JumpSlots(rela_plt)
                 /\ enumeration.name_out = Null
                 /\ enumeration.addr_out = 0))
  /\ [][EnumerateReturned
          => /\ (enumeration'.ret = "kSuccess" => enumeration'.pos > enumeration.pos)
             /\ (enumeration.ret = "kEofReached" => enumeration'.ret = "kEofReached")]_vars

\* a table with an entry of another type between JUMP_SLOT entries has been
\* enumerated to its end and the call was made once more
C31_Witness ==
  /\ enumeration.ret = "kEofReached"
  /\ enumeration.calls = Len(enumeration.yielded) + 2
  /\ Len(rela_plt) = 3
  /\ rela_plt[1].r_type = "R_X86_64_JUMP_SLOT"
  /\ rela_plt[2].r_type = "R_X86_64_GLOB_DAT"
  /\ rela_plt[3].r_type = "R_X86_64_JUMP_SLOT"
  /\ Len(enumeration.yielded) = 2

\* ---- C32
StartReturns == startup.pc[2] # 0 /\ startup'.pc[2] = 0

Count(seq, x) == Cardinality({i \in 1..Len(seq) : seq[i] = x})

\* C32: a failure to patch one symbol never stops Start: Start makes one
\* attempt after the other in the order of its list, whatever each attempt
\* returns, and when it returns every symbol of the hook (eight allocator
\* symbols, three mutex symbols) has been attempted exactly once; a failed
\* mandatory symbol has an ERROR line; every optional allocator symbol is in
\* exactly one of the two lists, the hooked one exactly when its attempt
\* succeeded
C32_FailuresDoNotAbortStart ==
  /\ [](startup.pc[1] # "none"
         => /\ Len(startup.attempted) <= Len(SymbolsOf(startup.pc[1]))
            /\ startup.attempted
                 = SubSeq(SymbolsOf(startup.pc[1]), 1, Len(startup.attempted))
            /\ \A i \in 1..Len(startup.attempted) :
                 LET s == startup.attempted[i]
                     failed == startup.rets[i] # "kSuccess"
                     name == DisplayName(s)
                 IN /\ (s \in Mandatory /\ failed)
                       => \E l \in Range(startup.log) : l[1] = "ERROR" /\ l[3] = s
                    /\ (startup.pc[1] = "MemoryHook" /\ s \notin Mandatory)
                       => /\ Count(startup.hooked_functions, name)
                              + Count(startup.skipped_functions, name) = 1
                          /\ Count(startup.hooked_functions, name) = 1 <=> ~failed)
  /\ [][StartReturns => startup.attempted = SymbolsOf(startup.pc[1])]_vars
  /\ [][startup'.attempted # startup.attempted /\ startup.pc[2] # 0
          => startup'.pc[2] = startup.pc[2] + 1]_vars

\* a Start of the allocator hook has returned after its attempt at a
\* mandatory symbol and its attempt at an optional symbol failed, with a
\* later symbol patched
C32_Witness ==
  /\ startup.pc = <<"MemoryHook", 0>>
  /\ startup.starts > 0
  /\ startup.rets[1] = "kFunctionNotFound"
  /\ startup.rets[3] = "kInternalError"
  /\ startup.rets[Len(MemorySymbols)] = "kSuccess"

\* a Start of the mutex hook has returned after its first attempt failed and
\* its last attempt succeeded
C32_WitnessLock ==
  /\ startup.pc = <<"LockHook", 0>>
  /\ startup.starts > 0
  /\ startup.rets[1] = "kInternalError"
  /\ startup.rets[Len(Symbols)] = "kSuccess"
  /\ g_orig["pthread_mutex_trylock"] = Real(NameOf("pthread_mutex_trylock"))

\* ---- C39
\* C39: starting again changes nothing: a GOT word that holds an interposer
\* keeps that interposer through every later Start (of the same hook, or of a
\* second hook registered for the same object), and each of g_orig_mutex_lock,
\* g_orig_mutex_unlock, g_orig_mutex_trylock is either still null or the
\* function dlsym resolves the symbol to, never an interposer, so that an
\* interposer never calls itself through its g_orig pointer
C39_StartIdempotent ==
  /\ [](\A s \in Range(Symbols) :
          /\ g_orig[s] \in {Null, Dlsym(NameOf(s))}
          /\ g_orig[s][1] # "hook"
          /\ g_orig[s] # HookedFunction(s))
  /\ [][\A i \in DOMAIN got_word :
          got_word[i][1] = "hook" => got_word'[i] = got_word[i]]_vars
  /\ [][(StartReturns /\ startup.starts >= 2)
          => \A s \in Range(Symbols) :
               g_orig[s] # Null => g_orig'[s] = Dlsym(NameOf(s))]_vars

\* the mutex hook has been started twice on the object and both times every
\* symbol was patched
C39_Witness ==
  /\ startup.started = <<"LockHook", "LockHook">>
  /\ startup.pc = <<"LockHook", 0>>
  /\ \A i \in 1..Len(Symbols) : startup.rets[i] = "kSuccess"
  /\ \A s \in Range(Symbols) : g_orig[s] = Real(NameOf(s))
  /\ \A i \in DOMAIN got_word :
       rela_plt[i].name \in {NameOf(s) : s \in Range(Symbols)} => got_word[i][1] = "hook"

\* ---- C33
DetectorStartOver == detector.pc \in {<<"returned">>, <<"thrown">>}

\* C33: when DetectorStart is over, every registered hook of an enabled
\* detector whose object is loaded has been patched, whatever happened to
\* the hooks of objects whose inspector could not be constructed
C33_InspectorFailureConfined ==
  DetectorStartOver
    => \A d \in DOMAIN detector.hooks_ :
         \A i \in 1..Len(detector.hooks_[d]) :
           detector.hooks_[d][i] \notin NotLoaded => <<d, i>> \in detector.patched

\* ---- C34
\* the recorded owners of the lock map
Owners == {active_locks[m].owner_thread : m \in DOMAIN active_locks}

\* C34: on every lock map, with cycles, with a lock waiting for itself and
\* with edges to mutexes without a record, DetectDeadlock returns, and the
\* frames of the search never nest deeper than the number of distinct
\* recorded owners (the values of owner_thread in the map) plus two
C34_SearchDepthBounded ==
  search.returned => search.depth <= Cardinality(Owners) + 2

\* a search that returned from the deepest nesting the bound allows, on a map
\* with a cycle of two locks, a lock waiting for itself and an edge to a mutex
\* without a record
C34_Witness ==
  /\ search.returned
  /\ search.depth = Cardinality(Owners) + 2
  /\ \E m \in DOMAIN active_locks : m \in active_locks[m].waiting_for
  /\ \E m \in DOMAIN active_locks :
       active_locks[m].waiting_for \ DOMAIN active_locks # {}
  /\ \E m, n \in DOMAIN active_locks :
       /\ m # n
       /\ n \in active_locks[m].waiting_for
       /\ m \in active_locks[n].waiting_for

\* ---- C35
\* the reference: the wait-for graph has a path lock = L0, L1, ..., Lk, every
\* L(i+1) in the waiting_for of Li and with a record, whose last owner is
\* thread_id or the owner of an earlier Li (i >= 1); seen is the set of the
\* owners of L1 .. Li of the path so far, all different from thread_id
RECURSIVE WaitPath(_, _, _, _)
WaitPath(al, lock, thread_id, seen) ==
  \E next \in al[lock].waiting_for \cap DOMAIN al :
    LET owner == al[next].owner_thread
    IN \/ owner = thread_id
       \/ owner \in seen
       \/ WaitPath(al, next, thread_id, seen \cup {owner})

\* the chain follows edges of the graph between mutexes that have a record
ChainIsPath(al, chain) ==
  /\ \A i \in 1..Len(chain) : chain[i][1] \in DOMAIN al
  /\ \A i \in 2..Len(chain) :
       /\ chain[i][1] \in al[chain[i - 1][1]].waiting_for
       /\ chain[i][2] = al[chain[i][1]].owner_thread

\* C35: DetectDeadlock(M, T) returns true exactly when the wait-for graph has
\* a path from M, through mutexes that have a record, to a mutex whose owner
\* is T or the owner of an earlier mutex of the path after M; after false
\* visited_threads and lock_chain are empty again; after true lock_chain
\* starts with (M, T), follows edges between mutexes that have a record, and
\* its last pair names a thread of an earlier pair; whatever order the
\* waiting_for sets are iterated in
C35_SearchAgainstReference ==
  search.returned
    => /\ search.found
            <=> WaitPath(active_locks, search.lock_addr, search.thread_id, {})
       /\ ~search.found => search.visited_threads = {} /\ search.lock_chain = <<>>
       /\ search.found
            => LET chain == search.lock_chain
               IN /\ Len(chain) >= 2
                  /\ chain[1] = <<search.lock_addr, search.thread_id>>
                  /\ ChainIsPath(active_locks, chain)
                  /\ \E i \in 1..(Len(chain) - 1) : chain[i][2] = chain[Len(chain)][2]
                  /\ chain \in DetectDeadlock(active_locks, search.lock_addr,
                                               search.thread_id)

\* a search that backed out of a branch without a cycle, skipped an edge to
\* a mutex without a record, and found nothing
C35_Witness ==
  /\ search.returned
  /\ ~search.found
  /\ search.depth >= 2
  /\ active_locks[search.lock_addr].waiting_for \ DOMAIN active_locks # {}

\* a search that backed out of the branch it tried first and found the cycle
\* on the second
C35_WitnessSecondBranch ==
  /\ search.returned
  /\ search.found
  /\ Cardinality(active_locks[search.lock_addr].waiting_for \cap DOMAIN active_locks) = 2
  /\ search.lock_chain[2][1]
       # InOrder(active_locks[search.lock_addr].waiting_for, search.order)[1]

\* ---- C36
\* C36: a call of DetectorDetect (LockTracker::PrintStatus) that has begun
\* gets the tracker's guard and returns, also when the target threads are
\* blocked for good on each other's mutexes: nobody holds the guard while
\* waiting for a target mutex
C36_DetectLive ==
  /\ (detect.pc = "lock_guard") ~> (detect.pc = "returned")
  /\ [](\A t \in Threads : pc[t] \in {"lock_real", "unlock_real"} => mutex_ # t)

\* DetectorDetect was called while two target threads were blocked on each
\* other's mutexes, and has returned
C36_Witness ==
  /\ detect.pc = "returned"
  /\ detect.deadlocked
  /\ Deadlocked

\* ---- C37
\* thread t returns from HookedPthreadMutexLock in this step
LockReturns(t) == pc[t] \in {"lock_real", "lock_success"} /\ pc'[t] = "idle"

\* C37: when a call of pthread_mutex_lock through the interposer returns,
\* with 0 or with an error, the waiting_locks of the calling thread do not
\* contain the mutex of the call
C37_WaitingEntryGoneAtReturn ==
  [][\A t \in Threads :
       LockReturns(t)
         => \A i \in DOMAIN ThreadAt(thread_info', t).waiting_locks :
              ThreadAt(thread_info', t).waiting_locks[i] # arg[t]]_vars

\* ---- C38
TrackerCalled(name) == mops' # mops /\ entry'[1] = name

\* C38: in every state of the tracker active_allocations_ is at least the
\* number of keys of the live map and total_allocated_ - total_freed_ is at
\* least the sum of the live sizes (the sums staying below the modulus of
\* size_t); so when RecordDeallocation decrements active_allocations_ the
\* counter is at least 1, and when UpdateAllocationSize subtracts the old
\* size from total_allocated_ the counter is at least that size: neither
\* wraps
C38_CountersNeverWrap ==
  /\ [](/\ active_allocations >= Cardinality(DOMAIN allocations)
        /\ total_allocated >= total_freed
        /\ total_allocated - total_freed >= SumSizes(allocations, DOMAIN allocations)
        /\ total_allocated + SumSizes(allocations, DOMAIN allocations) < SizeModulus)
  /\ [][(TrackerCalled("RecordDeallocation") /\ entry'[2] \in DOMAIN allocations)
          => /\ active_allocations >= 1
             /\ active_allocations' = active_allocations - 1]_vars
  /\ [][(TrackerCalled("UpdateAllocationSize") /\ entry'[2] \in DOMAIN allocations)
          => /\ total_allocated >= allocations[entry'[2]]
             /\ total_allocated'
                  = total_allocated - allocations[entry'[2]] + entry'[3]]_vars

\* the last block has been released: the decrement took active_allocations_
\* to 0 and everything allocated has been freed
C38_Witness ==
  /\ entry[1] = "RecordDeallocation"
  /\ entry[2] # NullPtr
  /\ active_allocations = 0
  /\ total_freed = total_allocated
  /\ total_freed > 0

\* C40: a failed realloc keeps the old block tracked.  When the real realloc
\* returned null for a non-zero size, no step of the interposer call changes
\* the tracker: neither the step that calls the real realloc nor the step that
\* returns.  The old pointer keeps its record with its size, the old block is
\* still in the heap, the three counters are unchanged, and the value the
\* interposer returns is the null new_ptr.
FailedRealloc(t) ==
  /\ mpc[t] = "realloc_record"
  /\ mnew[t] = NullPtr
  /\ msize[t] # 0

C40_FailedReallocKeepsBlock ==
  [][\A t \in Threads :
      /\ (mpc[t] = "idle" /\ FailedRealloc(t)')
           => /\ TrackerUnchanged
              /\ mptr'[t] # NullPtr =>
                    /\ mptr'[t] \in DOMAIN heap'
                    /\ heap' = heap
      /\ (FailedRealloc(t) /\ mpc'[t] # mpc[t])
           => /\ mpc'[t] = "idle"
              /\ TrackerUnchanged
              /\ heap' = heap
              /\ mptr[t] \in DOMAIN allocations =>
                    /\ mptr[t] \in DOMAIN allocations'
                    /\ allocations'[mptr[t]] = allocations[mptr[t]]
                    /\ mptr[t] \in DOMAIN heap']_vars

\* the real realloc has failed for a non-zero size on a live tracked block
C40_Witness ==
  /\ FailedRealloc(MainThread)
  /\ mptr[MainThread] \in DOMAIN allocations
  /\ mptr[MainThread] \in DOMAIN heap
  /\ active_allocations = 1
  /\ total_allocated > 0

====
